---- MODULE Spec2Model ----
(***************************************************************************)
(* The pairs-trading z-score engine of algorithmic-trading-bot:            *)
(*   src/src/strategies/PairZScore.py   PairZScoreStrategy (live)          *)
(*   src/src/backtest/BTPairZScore.py   BTPairZScore (backtest)            *)
(*                                                                         *)
(* Numbers.  Prices, spreads, quantities and cash are whole numbers, on    *)
(* which the code's float +, - and * are exact.  Quotients and roots are   *)
(* kept exact: a rational is a pair <<n, d>> with d > 0, Python's None is  *)
(* the empty tuple where a number may be absent, a standard deviation is   *)
(* kept as the rational it is the root of, and a z-score as its sign and   *)
(* its square.  On whole numbers of this size the code's sums, means and   *)
(* deviations come out as the exact ones wherever a claim compares them.   *)
(*                                                                         *)
(* A run with arith = "float" takes the statistics of _compute_zscore in   *)
(* binary floating point as numpy computes them, each operation rounded to *)
(* MantBits significant bits (round to nearest, ties to even).  A number   *)
(* is then a whole count of the smallest positive float, of which          *)
(* 2^FracBits make 1.0.  The ledger of such a run is still summed exactly. *)
(***************************************************************************)
EXTENDS Integers, Sequences, FiniteSets, TLC

VARIABLES
    mode,             \* which harness drives the engine (run_bot's --backtest, or a unit test)
    arith,            \* the arithmetic of the run: "exact" (whole numbers) or "float"
    lookback_window,  \* self.lookback_window
    z_entry,          \* self.z_entry, a rational
    z_exit,           \* self.z_exit, a rational
    pairs_state,      \* PairZScoreStrategy.pairs_state: symbol_a, symbol_b, spreads, in_position
    bt_pairs_state,   \* BTPairZScore.pairs_state: the same and pos_a, pos_b
    bt_cash,          \* BTPairZScore.bt_cash
    bt_pnl_history,   \* BTPairZScore.bt_pnl_history: (ts, equity) samples
    session,          \* backtest(): where the call is, its valid_symbols, the reports printed
    current_prices,   \* the snapshot step_backtest was last given: symbol -> <<price>> or None
    no_quote,         \* the symbols _get_latest_prices last warned of ("No quote for")
    zlog,             \* per pair, what the last step computed for it
    out,              \* what the last step did: trades (backtest), venue calls (live)
    raised,           \* whether the last step() raised to its caller
    steps,            \* how many steps the driver has run
    zres,             \* the last _compute_zscore call of the unit-test harness
    sizes,            \* the last position-sizing call and its result
    twin              \* a second BTPairZScore: its pairs_state, bt_cash, bt_pnl_history

vars == <<mode, arith, lookback_window, z_entry, z_exit, pairs_state, bt_pairs_state,
          bt_cash, bt_pnl_history, session, current_prices, no_quote, zlog, out,
          raised, steps, zres, sizes, twin>>

----------------------------------------------------------------------------
(* Plain arithmetic *)

Max(a, b) == IF a >= b THEN a ELSE b

Abs(a) == IF a >= 0 THEN a ELSE -a

Sign(a) == IF a > 0 THEN 1 ELSE IF a < 0 THEN -1 ELSE 0

RECURSIVE SumSeq(_)
SumSeq(s) == IF s = <<>> THEN 0 ELSE Head(s) + SumSeq(Tail(s))

Last(s) == s[Len(s)]

\* Python's None where a number may be absent
NoneVal == <<>>

----------------------------------------------------------------------------
(* collections.deque(maxlen=W).append: the oldest value leaves a full deque *)

\* a deque that, once full, drops the value appended and keeps the oldest
DequeAppendKeepOldest(d, maxlen, x) ==
    IF Len(d) >= maxlen THEN d ELSE Append(d, x)

DequeAppend(d, maxlen, x) ==
    IF maxlen = 0 THEN <<>>
    ELSE IF Len(d) >= maxlen THEN Append(Tail(d), x)
    ELSE Append(d, x)

\* PairZScoreStrategy._update_spread / BTPairZScore._update_spread
UpdateSpread(state, W, spread) ==
    [state EXCEPT !.spreads = DequeAppend(state.spreads, W, spread)]

----------------------------------------------------------------------------
(* numpy: arr.mean() and arr.std(ddof), exact *)

\* a mean that divides by one less than the count
NpMeanShort(arr) == <<SumSeq(arr), Len(arr) - 1>>

\* arr.mean(): the sum over the count
NpMean(arr) == <<SumSeq(arr), Len(arr)>>

\* the population deviation: ddof ignored, the sum of squares over n
NpStdSquaredPopulation(arr, ddof) ==
    LET n == Len(arr)
        S == SumSeq(arr)
        dev == [i \in 1..n |-> n * arr[i] - S]
    IN  <<SumSeq([i \in 1..n |-> dev[i] * dev[i]]), n * n * n>>

\* arr.std(ddof): the root of sum(|x - mean|^2) / (n - ddof).  With
\* mean = S/n each deviation is (n*x - S)/n, so the quotient under the root
\* is sum((n*x - S)^2) / (n*n*(n - ddof)).
NpStdSquared(arr, ddof) ==
    LET n == Len(arr)
        S == SumSeq(arr)
        dev == [i \in 1..n |-> n * arr[i] - S]
    IN  <<SumSeq([i \in 1..n |-> dev[i] * dev[i]]), n * n * (n - ddof)>>

ZNone == [z |-> NoneVal, mean |-> NoneVal, std |-> NoneVal]

\* a z-score that is nan: 0/0, which every comparison answers False for
ZNaN == <<0, 0, 0>>

\* (spread - mean) / std for mean = m/c and std = sqrt(v/w): its sign is that
\* of c*spread - m and its square is (c*spread - m)^2 * w / (c*c*v)
ZQuotient(spread, mean, std2) ==
    LET num == mean[2] * spread - mean[1]
    IN  <<Sign(num), num * num * std2[2], mean[2] * mean[2] * std2[1]>>

\* a warm-up that ends one spread early: `<` taken on W - 1
ComputeZscoreEarly(state, W, spread) ==
    IF Len(state.spreads) < W - 1 THEN ZNone
    ELSE LET arr  == state.spreads
             mean == NpMean(arr)
             std2 == NpStdSquared(arr, 1)
         IN  IF std2[1] = 0
             THEN [z |-> NoneVal, mean |-> mean, std |-> std2]
             ELSE [z |-> ZQuotient(spread, mean, std2), mean |-> mean, std |-> std2]

\* PairZScoreStrategy._compute_zscore / BTPairZScore._compute_zscore.  On
\* fewer than two values (a window W < 2) arr.std(ddof=1) is nan, `std == 0`
\* is False and z is nan.
ComputeZscore(state, W, spread) ==
    IF Len(state.spreads) < W THEN ZNone
    ELSE LET arr  == state.spreads
             mean == NpMean(arr)
             std2 == NpStdSquared(arr, 1)
         IN  IF Len(arr) < 2
             THEN [z |-> ZNaN, mean |-> mean, std |-> std2]
             ELSE IF std2[1] = 0
             THEN [z |-> NoneVal, mean |-> mean, std |-> std2]
             ELSE [z |-> ZQuotient(spread, mean, std2), mean |-> mean, std |-> std2]

----------------------------------------------------------------------------
(* The same statistics in binary floating point.  A float is the whole      *)
(* number of smallest positive floats it holds.                             *)

MantBits == 3

FracBits == 4

RECURSIVE Pow2(_)
Pow2(k) == IF k = 0 THEN 1 ELSE 2 * Pow2(k - 1)

\* the spacing of the floats around n/d >= 0: the least power of two u with
\* n/d < 2^MantBits * u
RECURSIVE FlUlp(_, _, _)
FlUlp(n, d, u) == IF n < Pow2(MantBits) * u * d THEN u ELSE FlUlp(n, d, 2 * u)

\* n/d >= 0 to the nearest whole number, a tie to the even one
RoundHalfEven(n, d) ==
    LET q == n \div d
        r == n % d
    IN  IF 2 * r < d THEN q
        ELSE IF 2 * r > d THEN q + 1
        ELSE IF q % 2 = 0 THEN q ELSE q + 1

\* the float nearest to the rational r
FlRound(r) ==
    LET n == Abs(r[1])
        u == FlUlp(n, r[2], 1)
    IN  Sign(r[1]) * RoundHalfEven(n, r[2] * u) * u

FlAdd(a, b) == FlRound(<<a + b, 1>>)

FlSub(a, b) == FlRound(<<a - b, 1>>)

\* a * b: the product of two counts is a count of 2^FracBits-ths
FlMul(a, b) == FlRound(<<a * b, Pow2(FracBits)>>)

\* a / n for a whole number n
FlDivCount(a, n) == FlRound(<<a, n>>)

\* numpy's pairwise sum of fewer than 8 values: a plain loop from 0.0
RECURSIVE FlLoopSum(_, _)
FlLoopSum(acc, s) ==
    IF s = <<>> THEN acc ELSE FlLoopSum(FlAdd(acc, Head(s)), Tail(s))

\* numpy's add.reduce: the first value plus the pairwise sum of the rest
FlNpSum(arr) == FlAdd(arr[1], FlLoopSum(0, Tail(arr)))

\* arr.mean()
FlNpMean(arr) == FlDivCount(FlNpSum(arr), Len(arr))

\* arr.var(ddof), of which arr.std(ddof) is the root: the deviations from
\* the rounded mean, squared, summed and divided by n - ddof
FlNpVar(arr, ddof) ==
    LET n  == Len(arr)
        m  == FlNpMean(arr)
        x  == [i \in 1..n |-> FlSub(arr[i], m)]
        sq == [i \in 1..n |-> FlMul(x[i], x[i])]
    IN  FlDivCount(FlNpSum(sq), n - ddof)

\* _compute_zscore in floats.  std == 0 exactly when the variance is 0.0: the
\* root of a positive float is a positive float.  The variance v is a count
\* of smallest floats and stands for v * 2^FracBits squared counts; the
\* z-score is kept as the quotient of the rounded spread - mean by the root.
FlComputeZscore(state, W, spread) ==
    IF Len(state.spreads) < W THEN ZNone
    ELSE LET arr  == state.spreads
             mean == <<FlNpMean(arr), 1>>
             std2 == <<FlNpVar(arr, 1) * Pow2(FracBits), 1>>
             num  == FlSub(spread, mean[1])
         IN  IF std2[1] = 0
             THEN [z |-> NoneVal, mean |-> mean, std |-> std2]
             ELSE [z |-> <<Sign(num), num * num, std2[1]>>, mean |-> mean, std |-> std2]

\* _compute_zscore in the arithmetic of the run
Zscore(state, W, spread) ==
    IF arith = "float" THEN FlComputeZscore(state, W, spread)
    ELSE ComputeZscore(state, W, spread)

\* price_a - price_b in the arithmetic of the run
SpreadOf(pa, pb) == IF arith = "float" THEN FlSub(pa, pb) ELSE pa - pb

----------------------------------------------------------------------------
(* Comparisons of a z-score <<sign, a, b>> (z*z = a/b) with a rational <<n, d>> *)

Neg(t) == <<-t[1], t[2]>>

\* z >= t: the comparison with the tie let through
ZGtOrEq(z, t) ==
    IF t[1] >= 0
    THEN z[1] > 0 /\ z[2] * t[2] * t[2] >= t[1] * t[1] * z[3]
    ELSE z[1] >= 0 \/ z[2] * t[2] * t[2] <= t[1] * t[1] * z[3]

\* z > t
ZGt(z, t) ==
    IF t[1] >= 0
    THEN z[1] > 0 /\ z[2] * t[2] * t[2] > t[1] * t[1] * z[3]
    ELSE z[1] >= 0 \/ z[2] * t[2] * t[2] < t[1] * t[1] * z[3]

\* z < t
ZLt(z, t) == ZGt(<<-z[1], z[2], z[3]>>, Neg(t))

\* abs(z) < t
ZAbsLt(z, t) == t[1] > 0 /\ z[2] * t[2] * t[2] < t[1] * t[1] * z[3]

----------------------------------------------------------------------------
(* Position sizing *)

\* int(notional_each // price) for notional_each = capital / 10.0: Python's
\* float floor division, the floor of the quotient
SizeDivisor == 10

\* the whole capital sized into each leg: the division by 10 left out
FloorQtyWhole(capital, price) == capital \div price

FloorQty(capital, price) == capital \div (SizeDivisor * price)

\* PairZScoreStrategy._position_sizes, for bp = float(acct.buying_power)
PositionSizes(price_a, price_b, bp) ==
    <<Max(FloorQty(bp, price_a), 1), Max(FloorQty(bp, price_b), 1)>>

\* BTPairZScore._bt_position_sizes
BtPositionSizes(price_a, price_b, current_equity) ==
    <<Max(FloorQty(current_equity, price_a), 1),
      Max(FloorQty(current_equity, price_b), 1)>>

----------------------------------------------------------------------------
(* The backtest ledger.  self is [pairs_state, bt_cash, out]; out collects  *)
(* the trades the step prints.                                              *)

\* a price that `if pa and pb` takes: not None and not 0.0
Truthy(p) == p # NoneVal /\ p[1] # 0

\* an entry that buys both legs
BtEnterLongSpreadSameSide(self, i, pa, pb, current_equity) ==
    LET state == self.pairs_state[i]
        qty   == BtPositionSizes(pa, pb, current_equity)
    IN  [pairs_state |-> [self.pairs_state EXCEPT ![i] =
                [state EXCEPT !.pos_a = state.pos_a + qty[1],
                              !.pos_b = state.pos_b + qty[2],
                              !.in_position = TRUE]],
         bt_cash |-> (self.bt_cash - qty[1] * pa) - qty[2] * pb,
         out |-> Append(self.out, [pair |-> i, kind |-> "BUY SPREAD",
                                   qty_a |-> qty[1], qty_b |-> qty[2]])]

\* an entry that pays for leg A and is not paid for leg B
BtEnterLongSpreadDebitOnly(self, i, pa, pb, current_equity) ==
    LET state == self.pairs_state[i]
        qty   == BtPositionSizes(pa, pb, current_equity)
    IN  [pairs_state |-> [self.pairs_state EXCEPT ![i] =
                [state EXCEPT !.pos_a = state.pos_a + qty[1],
                              !.pos_b = state.pos_b - qty[2],
                              !.in_position = TRUE]],
         bt_cash |-> self.bt_cash - qty[1] * pa,
         out |-> Append(self.out, [pair |-> i, kind |-> "BUY SPREAD",
                                   qty_a |-> qty[1], qty_b |-> qty[2]])]

\* BTPairZScore._bt_enter_long_spread: buy A, sell B
BtEnterLongSpread(self, i, pa, pb, current_equity) ==
    LET state == self.pairs_state[i]
        qty   == BtPositionSizes(pa, pb, current_equity)
    IN  [pairs_state |-> [self.pairs_state EXCEPT ![i] =
                [state EXCEPT !.pos_a = state.pos_a + qty[1],
                              !.pos_b = state.pos_b - qty[2],
                              !.in_position = TRUE]],
         bt_cash |-> (self.bt_cash - qty[1] * pa) + qty[2] * pb,
         out |-> Append(self.out, [pair |-> i, kind |-> "BUY SPREAD",
                                   qty_a |-> qty[1], qty_b |-> qty[2]])]

\* an entry short that is refused while the book as a whole is worth less
\* than its cash
BtEnterShortSpreadGated(self, i, pa, pb, current_equity) ==
    IF current_equity < self.bt_cash THEN self
    ELSE LET state == self.pairs_state[i]
             qty   == BtPositionSizes(pa, pb, current_equity)
         IN  [pairs_state |-> [self.pairs_state EXCEPT ![i] =
                     [state EXCEPT !.pos_a = state.pos_a - qty[1],
                                   !.pos_b = state.pos_b + qty[2],
                                   !.in_position = TRUE]],
              bt_cash |-> (self.bt_cash + qty[1] * pa) - qty[2] * pb,
              out |-> Append(self.out, [pair |-> i, kind |-> "SELL SPREAD",
                                        qty_a |-> qty[1], qty_b |-> qty[2]])]

\* BTPairZScore._bt_enter_short_spread: sell A, buy B
BtEnterShortSpread(self, i, pa, pb, current_equity) ==
    LET state == self.pairs_state[i]
        qty   == BtPositionSizes(pa, pb, current_equity)
    IN  [pairs_state |-> [self.pairs_state EXCEPT ![i] =
                [state EXCEPT !.pos_a = state.pos_a - qty[1],
                              !.pos_b = state.pos_b + qty[2],
                              !.in_position = TRUE]],
         bt_cash |-> (self.bt_cash + qty[1] * pa) - qty[2] * pb,
         out |-> Append(self.out, [pair |-> i, kind |-> "SELL SPREAD",
                                   qty_a |-> qty[1], qty_b |-> qty[2]])]

\* a close that books the proceeds of leg A only
BtClosePositionsLegA(self, i, pa, pb) ==
    LET state == self.pairs_state[i]
    IN  [pairs_state |-> [self.pairs_state EXCEPT ![i] =
                [state EXCEPT !.pos_a = 0, !.pos_b = 0, !.in_position = FALSE]],
         bt_cash |-> self.bt_cash + state.pos_a * pa,
         out |-> Append(self.out, [pair |-> i, kind |-> "CLOSE",
                                   qty_a |-> state.pos_a, qty_b |-> state.pos_b])]

\* a close that leaves the position of leg B on the books
BtClosePositionsKeepB(self, i, pa, pb) ==
    LET state == self.pairs_state[i]
    IN  [pairs_state |-> [self.pairs_state EXCEPT ![i] =
                [state EXCEPT !.pos_a = 0, !.in_position = FALSE]],
         bt_cash |-> (self.bt_cash + state.pos_a * pa) + state.pos_b * pb,
         out |-> Append(self.out, [pair |-> i, kind |-> "CLOSE",
                                   qty_a |-> state.pos_a, qty_b |-> state.pos_b])]

\* BTPairZScore._bt_close_positions
BtClosePositions(self, i, pa, pb) ==
    LET state == self.pairs_state[i]
    IN  [pairs_state |-> [self.pairs_state EXCEPT ![i] =
                [state EXCEPT !.pos_a = 0, !.pos_b = 0, !.in_position = FALSE]],
         bt_cash |-> (self.bt_cash + state.pos_a * pa) + state.pos_b * pb,
         out |-> Append(self.out, [pair |-> i, kind |-> "CLOSE",
                                   qty_a |-> state.pos_a, qty_b |-> state.pos_b])]

RECURSIVE EquityFrom(_, _, _, _)
EquityFrom(equity, pairs, prices, i) ==
    IF i > Len(pairs) THEN equity
    ELSE LET pa == prices[pairs[i].symbol_a]
             pb == prices[pairs[i].symbol_b]
         IN  EquityFrom(IF Truthy(pa) /\ Truthy(pb)
                        THEN equity + ((pairs[i].pos_a * pa[1]) + (pairs[i].pos_b * pb[1]))
                        ELSE equity,
                        pairs, prices, i + 1)

\* an equity that is the cash alone
GetTotalEquityCash(self, prices) == self.bt_cash

\* BTPairZScore._get_total_equity
GetTotalEquity(self, prices) == EquityFrom(self.bt_cash, self.pairs_state, prices, 1)

----------------------------------------------------------------------------
(* What a step notes per pair: "unreached" (the step ended before the pair), *)
(* "skipped" (a leg has no price) or "scored" with the _compute_zscore result *)

Unreached == [seen |-> "unreached", res |-> ZNone]

Skipped == [seen |-> "skipped", res |-> ZNone]

Scored(r) == [seen |-> "scored", res |-> r]

\* a loop body that scores the spread against the window as it was, and
\* appends it afterwards
BtProcessPairScoreFirst(self, i, prices, current_equity, W, ze, zx) ==
    LET state == self.pairs_state[i]
        pa == prices[state.symbol_a]
        pb == prices[state.symbol_b]
    IN  IF pa = NoneVal \/ pb = NoneVal THEN [self |-> self, note |-> Skipped]
        ELSE
        LET spread  == SpreadOf(pa[1], pb[1])
            updated == [self EXCEPT !.pairs_state[i] = UpdateSpread(state, W, spread)]
            r       == Zscore(state, W, spread)
        IN  [note |-> Scored(r),
             self |->
                IF r.z = NoneVal THEN updated
                ELSE IF ~state.in_position
                THEN IF ZGt(r.z, ze)
                     THEN BtEnterShortSpread(updated, i, pa[1], pb[1], current_equity)
                     ELSE IF ZLt(r.z, Neg(ze))
                     THEN BtEnterLongSpread(updated, i, pa[1], pb[1], current_equity)
                     ELSE updated
                ELSE IF ZAbsLt(r.z, zx)
                     THEN BtClosePositions(updated, i, pa[1], pb[1])
                     ELSE updated]

\* a loop body that tests for an entry whether or not the pair is open, and
\* so enters on top of an open position
BtProcessPairReversing(self, i, prices, current_equity, W, ze, zx) ==
    LET state == self.pairs_state[i]
        pa == prices[state.symbol_a]
        pb == prices[state.symbol_b]
    IN  IF pa = NoneVal \/ pb = NoneVal THEN [self |-> self, note |-> Skipped]
        ELSE
        LET spread  == SpreadOf(pa[1], pb[1])
            updated == [self EXCEPT !.pairs_state[i] = UpdateSpread(state, W, spread)]
            r       == Zscore(updated.pairs_state[i], W, spread)
        IN  [note |-> Scored(r),
             self |->
                IF r.z = NoneVal THEN updated
                ELSE IF ZGt(r.z, ze)
                THEN BtEnterShortSpread(updated, i, pa[1], pb[1], current_equity)
                ELSE IF ZLt(r.z, Neg(ze))
                THEN BtEnterLongSpread(updated, i, pa[1], pb[1], current_equity)
                ELSE IF state.in_position /\ ZAbsLt(r.z, zx)
                THEN BtClosePositions(updated, i, pa[1], pb[1])
                ELSE updated]

\* a loop body that takes the exit test on z_entry
BtProcessPairExitOnEntry(self, i, prices, current_equity, W, ze, zx) ==
    LET state == self.pairs_state[i]
        pa == prices[state.symbol_a]
        pb == prices[state.symbol_b]
    IN  IF pa = NoneVal \/ pb = NoneVal THEN [self |-> self, note |-> Skipped]
        ELSE
        LET spread  == SpreadOf(pa[1], pb[1])
            updated == [self EXCEPT !.pairs_state[i] = UpdateSpread(state, W, spread)]
            r       == Zscore(updated.pairs_state[i], W, spread)
        IN  [note |-> Scored(r),
             self |->
                IF r.z = NoneVal THEN updated
                ELSE IF ~state.in_position
                THEN IF ZGt(r.z, ze)
                     THEN BtEnterShortSpread(updated, i, pa[1], pb[1], current_equity)
                     ELSE IF ZLt(r.z, Neg(ze))
                     THEN BtEnterLongSpread(updated, i, pa[1], pb[1], current_equity)
                     ELSE updated
                ELSE IF ZAbsLt(r.z, ze)
                     THEN BtClosePositions(updated, i, pa[1], pb[1])
                     ELSE updated]

\* the body of step_backtest's loop for pair i
BtProcessPair(self, i, prices, current_equity, W, ze, zx) ==
    LET state == self.pairs_state[i]
        pa == prices[state.symbol_a]
        pb == prices[state.symbol_b]
    IN  IF pa = NoneVal \/ pb = NoneVal THEN [self |-> self, note |-> Skipped]
        ELSE
        LET spread  == SpreadOf(pa[1], pb[1])
            updated == [self EXCEPT !.pairs_state[i] = UpdateSpread(state, W, spread)]
            r       == Zscore(updated.pairs_state[i], W, spread)
        IN  [note |-> Scored(r),
             self |->
                IF r.z = NoneVal THEN updated
                ELSE IF ~state.in_position
                THEN IF ZGt(r.z, ze)
                     THEN BtEnterShortSpread(updated, i, pa[1], pb[1], current_equity)
                     ELSE IF ZLt(r.z, Neg(ze))
                     THEN BtEnterLongSpread(updated, i, pa[1], pb[1], current_equity)
                     ELSE updated
                ELSE IF ZAbsLt(r.z, zx)
                     THEN BtClosePositions(updated, i, pa[1], pb[1])
                     ELSE updated]

\* a loop that ends at the first pair with a missing price (break for
\* continue): the pairs after it are not processed
RECURSIVE BtLoopBreak(_, _, _, _, _, _, _, _)
BtLoopBreak(self, notes, i, prices, current_equity, W, ze, zx) ==
    IF i > Len(self.pairs_state) THEN [self |-> self, notes |-> notes]
    ELSE LET done == BtProcessPair(self, i, prices, current_equity, W, ze, zx)
         IN  IF done.note = Skipped
             THEN [self |-> self,
                   notes |-> [k \in 1..Len(self.pairs_state) |->
                                IF k < i THEN notes[k]
                                ELSE IF k = i THEN Skipped ELSE Unreached]]
             ELSE BtLoopBreak(done.self, Append(notes, done.note), i + 1,
                              prices, current_equity, W, ze, zx)

\* step_backtest's loop from pair i on; notes collects the per-pair notes
RECURSIVE BtLoop(_, _, _, _, _, _, _, _)
BtLoop(self, notes, i, prices, current_equity, W, ze, zx) ==
    IF i > Len(self.pairs_state) THEN [self |-> self, notes |-> notes]
    ELSE LET done == BtProcessPair(self, i, prices, current_equity, W, ze, zx)
         IN  BtLoop(done.self, Append(notes, done.note), i + 1,
                    prices, current_equity, W, ze, zx)

\* BTPairZScore.step_backtest(current_prices, ts)
StepBacktestResult(self, history, prices, ts, W, ze, zx) ==
    LET current_equity == GetTotalEquity(self, prices)
        looped == BtLoop([self EXCEPT !.out = <<>>], <<>>, 1, prices,
                         current_equity, W, ze, zx)
        new_equity == GetTotalEquity(looped.self, prices)
    IN  [self |-> looped.self, notes |-> looped.notes,
         history |-> Append(history, <<ts, new_equity>>)]

\* a step whose cash drifts with the wall clock
StepBacktestAtClock(self, history, prices, ts, now, W, ze, zx) ==
    StepBacktestResult([self EXCEPT !.bt_cash = @ + now], history, prices, ts, W, ze, zx)

\* step_backtest called at the wall-clock time now, which it does not read:
\* ts is the bar's own time
StepBacktestAt(self, history, prices, ts, now, W, ze, zx) ==
    StepBacktestResult(self, history, prices, ts, W, ze, zx)

----------------------------------------------------------------------------
(* The end of backtest(): the force close and the report *)

\* a force close that leaves the pairs as they are
RECURSIVE ForceCloseNone(_, _, _)
ForceCloseNone(self, last_prices, i) == self

\* backtest(): "Force close all", from pair i on, at the last row's prices
RECURSIVE ForceClose(_, _, _)
ForceClose(self, last_prices, i) ==
    IF i > Len(self.pairs_state) THEN self
    ELSE LET state == self.pairs_state[i]
             pa == last_prices[state.symbol_a]
             pb == last_prices[state.symbol_b]
         IN  ForceClose(IF state.in_position /\ Truthy(pa) /\ Truthy(pb)
                        THEN BtClosePositions(self, i, pa[1], pb[1])
                        ELSE self,
                        last_prices, i + 1)

\* what backtest() returns: None (kind "none": no data found), the report,
\* or nothing because it raised (kind "raised"); return_pct is the rational
\* total_pnl * 100 / initial_equity
NoReport(kind) ==
    [kind |-> kind, initial_equity |-> 0, final_equity |-> 0, total_pnl |-> 0,
     return_pct |-> <<0, 1>>]

\* a report whose P&L is the final equity, the initial equity not taken off
ReportGross(self, initial_equity, last_prices) ==
    LET final_equity == GetTotalEquity(self, last_prices)
        total_pnl == final_equity
    IN  [kind |-> "report", initial_equity |-> initial_equity,
         final_equity |-> final_equity, total_pnl |-> total_pnl,
         return_pct |-> <<total_pnl * 100, initial_equity>>]

\* backtest(): final_equity, total_pnl, ret_pct and the returned dict
Report(self, initial_equity, last_prices) ==
    LET final_equity == GetTotalEquity(self, last_prices)
        total_pnl == final_equity - initial_equity
    IN  [kind |-> "report", initial_equity |-> initial_equity,
         final_equity |-> final_equity, total_pnl |-> total_pnl,
         return_pct |-> <<total_pnl * 100, initial_equity>>]

\* a session without data that empties the windows of the pairs
SkipSessionCleared(pairs) == [i \in 1..Len(pairs) |-> [pairs[i] EXCEPT !.spreads = <<>>]]

\* backtest() on a date without data: "No data found." and return, or an
\* exception that run_bot's loop catches; the pairs are as they were
SkipSession(pairs) == pairs

----------------------------------------------------------------------------
(* The live strategy.  self is [pairs_state, out]; out collects the calls   *)
(* made on the trading client, each with whether it returned (ok) or        *)
(* raised.  An operation that calls the venue has one outcome per way the   *)
(* calls can end: [self, raised].                                           *)

VenueCall(call, symbol, qty, side, ok) ==
    [call |-> call, symbol |-> symbol, qty |-> qty, side |-> side, ok |-> ok]

Called(self, c) == [self EXCEPT !.out = Append(@, c)]

\* PairZScoreStrategy._submit_market_order: submit_order, whose exception
\* is not caught here
SubmitMarketOrder(self, symbol, qty, side) ==
    { [self |-> Called(self, VenueCall("submit_order", symbol, qty, side, ok)),
       raised |-> ~ok] : ok \in BOOLEAN }

\* PairZScoreStrategy._enter_long_spread: buy A, sell B
EnterLongSpread(self, i, qty_a, qty_b) ==
    LET pair == self.pairs_state[i]
    IN  UNION { IF a.raised THEN {a}
                ELSE { IF b.raised THEN b
                       ELSE [self |-> [b.self EXCEPT !.pairs_state[i].in_position = TRUE],
                             raised |-> FALSE]
                       : b \in SubmitMarketOrder(a.self, pair.symbol_b, qty_b, "SELL") }
                : a \in SubmitMarketOrder(self, pair.symbol_a, qty_a, "BUY") }

\* PairZScoreStrategy._enter_short_spread: sell A, buy B
EnterShortSpread(self, i, qty_a, qty_b) ==
    LET pair == self.pairs_state[i]
    IN  UNION { IF a.raised THEN {a}
                ELSE { IF b.raised THEN b
                       ELSE [self |-> [b.self EXCEPT !.pairs_state[i].in_position = TRUE],
                             raised |-> FALSE]
                       : b \in SubmitMarketOrder(a.self, pair.symbol_b, qty_b, "BUY") }
                : a \in SubmitMarketOrder(self, pair.symbol_a, qty_a, "SELL") }

\* a close without the try/except: a failing close_position raises out of it
ClosePositionsUncaught(self, i) ==
    LET pair == self.pairs_state[i]
        a(ok) == VenueCall("close_position", pair.symbol_a, 0, "", ok)
        b(ok) == VenueCall("close_position", pair.symbol_b, 0, "", ok)
    IN  { [self |-> Called(self, a(FALSE)), raised |-> TRUE],
          [self |-> Called(Called(self, a(TRUE)), b(FALSE)), raised |-> TRUE],
          [self |-> [pairs_state |-> [self.pairs_state EXCEPT ![i].in_position = FALSE],
                     out |-> self.out \o <<a(TRUE), b(TRUE)>>],
           raised |-> FALSE] }

\* a close by close_all_positions: every pair is flagged flat
ClosePositionsAll(self, i) ==
    LET pair == self.pairs_state[i]
    IN  { [self |-> [pairs_state |-> [k \in 1..Len(self.pairs_state) |->
                                        [self.pairs_state[k] EXCEPT !.in_position = FALSE]],
                     out |-> self.out \o
                        << VenueCall("close_position", pair.symbol_a, 0, "", oka),
                           VenueCall("close_position", pair.symbol_b, 0, "", okb) >>],
           raised |-> FALSE] : oka \in BOOLEAN, okb \in BOOLEAN }

\* PairZScoreStrategy._close_positions: each close_position in its own try
ClosePositions(self, i) ==
    LET pair == self.pairs_state[i]
    IN  { [self |-> [pairs_state |-> [self.pairs_state EXCEPT ![i].in_position = FALSE],
                     out |-> self.out \o
                        << VenueCall("close_position", pair.symbol_a, 0, "", oka),
                           VenueCall("close_position", pair.symbol_b, 0, "", okb) >>],
           raised |-> FALSE] : oka \in BOOLEAN, okb \in BOOLEAN }

\* the get_account call of _position_sizes: the buying power, or it raises
GetAccount(self, powers) ==
    { [self |-> Called(self, VenueCall("get_account", "", 0, "", FALSE)),
       raised |-> TRUE, bp |-> 0] }
    \cup { [self |-> Called(self, VenueCall("get_account", "", 0, "", TRUE)),
            raised |-> FALSE, bp |-> bp] : bp \in powers }

\* the body of step()'s loop for pair i: the outcomes [self, note, raised]
ProcessPair(self, i, prices, powers, W, ze, zx) ==
    LET pair == self.pairs_state[i]
        pa == prices[pair.symbol_a]
        pb == prices[pair.symbol_b]
    IN  IF pa = NoneVal \/ pb = NoneVal
        THEN {[self |-> self, note |-> Skipped, raised |-> FALSE]}
        ELSE
        LET spread  == SpreadOf(pa[1], pb[1])
            updated == [self EXCEPT !.pairs_state[i] = UpdateSpread(pair, W, spread)]
            r       == Zscore(updated.pairs_state[i], W, spread)
            noted(o) == [self |-> o.self, note |-> Scored(r), raised |-> o.raised]
            same    == [self |-> updated, raised |-> FALSE]
        IN  IF r.z = NoneVal THEN {noted(same)}
            ELSE IF ~pair.in_position
            THEN UNION {
                    IF acct.raised THEN {noted(acct)}
                    ELSE LET qty == PositionSizes(pa[1], pb[1], acct.bp)
                         IN  IF ZGt(r.z, ze)
                             THEN {noted(o) : o \in EnterShortSpread(acct.self, i, qty[1], qty[2])}
                             ELSE IF ZLt(r.z, Neg(ze))
                             THEN {noted(o) : o \in EnterLongSpread(acct.self, i, qty[1], qty[2])}
                             ELSE {noted([self |-> acct.self, raised |-> FALSE])}
                    : acct \in GetAccount(updated, powers) }
            ELSE IF ZAbsLt(r.z, zx)
                 THEN {noted(o) : o \in ClosePositions(updated, i)}
                 ELSE {noted(same)}

\* the notes of a step that ended after `notes`: the pairs left are unreached
PadNotes(notes, n) ==
    [i \in 1..n |-> IF i <= Len(notes) THEN notes[i] ELSE Unreached]

\* step()'s loop from pair i on: the outcomes [self, notes, raised]; an
\* exception ends the loop
RECURSIVE Loop(_, _, _, _, _, _, _, _)
Loop(self, notes, i, prices, powers, W, ze, zx) ==
    IF i > Len(self.pairs_state)
    THEN {[self |-> self, notes |-> notes, raised |-> FALSE]}
    ELSE UNION {
            IF o.raised
            THEN {[self |-> o.self,
                   notes |-> PadNotes(Append(notes, o.note), Len(self.pairs_state)),
                   raised |-> TRUE]}
            ELSE Loop(o.self, Append(notes, o.note), i + 1, prices, powers, W, ze, zx)
            : o \in ProcessPair(self, i, prices, powers, W, ze, zx) }

\* PairZScoreStrategy.step(), given what _get_latest_prices returns
StepResults(pairs, prices, powers, W, ze, zx) ==
    Loop([pairs_state |-> pairs, out |-> <<>>], <<>>, 1, prices, powers, W, ze, zx)

----------------------------------------------------------------------------
(* Configuration and bounds *)

\* the symbols of the configured pairs, and the pairs
Symbols == {"A", "B", "C", "D"}

Pairs == << <<"A", "B">>, <<"C", "D">> >>

NPairs == Len(Pairs)

\* prices are 1..MaxPrice; the driver runs ExtraSteps steps more than the
\* window needs to fill
MaxPrice == 2

ExtraSteps == 1

\* a long campaign runs LongSteps steps more
LongSteps == 1

StepLimit == lookback_window + ExtraSteps + (IF mode = "campaign" THEN LongSteps ELSE 0)

\* what get_account may report as buying power
BuyingPowers == {40}

\* how many symbols a live step may be left without a quote for
MaxMissing == 1

\* how many dates the backtest campaign of run_bot goes through
MaxDays == 2

Prices == 1..MaxPrice

\* initial_cash: float = 200000.0
InitialCash == 200000

\* the configurations the engine is constructed with
Configs ==
    { [lookback_window |-> 3, z_entry |-> <<1, 1>>,   z_exit |-> <<1, 2>>],
      [lookback_window |-> 3, z_entry |-> <<11, 10>>, z_exit |-> <<1, 1>>],
      [lookback_window |-> 2, z_entry |-> <<1, 2>>,   z_exit |-> <<1, 4>>] }

\* float closes: their spreads are 0 and +-24 smallest floats
FlPrices == {4, 28}

\* the configuration of the float runs
FlConfigs == { [lookback_window |-> 3, z_entry |-> <<1, 2>>, z_exit |-> <<1, 4>>] }

\* the configurations the live strategy is run with
LiveConfigs == { cfg \in Configs : cfg.z_entry # <<1, 1>> }

\* what get_stock_latest_trade may return: a price for some of the symbols
Snapshots ==
    { f \in [Symbols -> {NoneVal} \cup {<<p>> : p \in Prices}] :
        Cardinality({s \in Symbols : f[s] = NoneVal}) <= MaxMissing }

\* the rows of a session's closes: a price for each of valid_symbols
Rows(valid_symbols) ==
    { [s \in Symbols |-> IF s \in valid_symbols THEN <<f[s]>> ELSE NoneVal] :
        f \in [valid_symbols -> IF arith = "float" THEN FlPrices ELSE Prices] }

----------------------------------------------------------------------------
(* Construction *)

\* PairState.__init__
PairState(symbol_a, symbol_b) ==
    [symbol_a |-> symbol_a, symbol_b |-> symbol_b, spreads |-> <<>>,
     in_position |-> FALSE]

\* BTPairState.__init__
BTPairState(symbol_a, symbol_b) ==
    [symbol_a |-> symbol_a, symbol_b |-> symbol_b, spreads |-> <<>>,
     in_position |-> FALSE, pos_a |-> 0, pos_b |-> 0]

NoCall == [arg |-> NoneVal, res |-> ZNone]

NoSizes ==
    [fn |-> "", capital |-> NoneVal, price_a |-> NoneVal, price_b |-> NoneVal,
     qty |-> NoneVal]

\* PairZScoreStrategy.__init__ and BTPairZScore.__init__, for a configuration
\* and a list of pairs
ConstructWith(cfg, pairs) ==
    /\ lookback_window = cfg.lookback_window
    /\ z_entry = cfg.z_entry
    /\ z_exit = cfg.z_exit
    /\ pairs_state = [i \in 1..Len(pairs) |-> PairState(pairs[i][1], pairs[i][2])]
    /\ bt_pairs_state = [i \in 1..Len(pairs) |-> BTPairState(pairs[i][1], pairs[i][2])]
    /\ bt_cash = InitialCash
    /\ bt_pnl_history = <<>>
    /\ session = [pc |-> "idle", valid_symbols |-> {}, day |-> 0, first |-> 0,
                  initial_equity |-> 0, result |-> NoReport("none"),
                  reports |-> <<>>]
    /\ current_prices = [s \in Symbols |-> NoneVal]
    /\ no_quote = {}
    /\ zlog = [i \in 1..NPairs |-> Unreached]
    /\ out = <<>>
    /\ raised = FALSE
    /\ steps = 0
    /\ zres = NoCall
    /\ sizes = NoSizes
    /\ twin = [pairs_state |-> [i \in 1..Len(pairs) |->
                                    BTPairState(pairs[i][1], pairs[i][2])],
               bt_cash |-> InitialCash, bt_pnl_history |-> <<>>,
               same |-> 1..Len(pairs)]

\* the same for one of Configs and the pairs A/B and C/D
Construct(cfg) == ConstructWith(cfg, Pairs)

Init ==
    /\ mode \in {"backtest", "live"}
    /\ arith = "exact"
    /\ \E cfg \in (IF mode = "live" THEN LiveConfigs ELSE Configs) : Construct(cfg)

----------------------------------------------------------------------------
(* The backtest driver *)

\* run_bot --backtest is what runs: "campaign" is a longer run of it
Backtesting == mode \in {"backtest", "campaign"}

\* backtest(): the bars are fetched and are not empty; the symbols with a
\* column of closes are the session's valid_symbols
FetchBars ==
    /\ Backtesting
    /\ session.pc = "idle"
    /\ steps < StepLimit
    /\ session.day < MaxDays
    /\ \E valid \in SUBSET Symbols :
         /\ valid # {}
         /\ session' = [pc |-> "rows", valid_symbols |-> valid, day |-> session.day + 1,
                        first |-> steps, initial_equity |-> bt_cash,
                        result |-> NoReport("none"), reports |-> session.reports]
    /\ UNCHANGED <<mode, arith, twin, lookback_window, z_entry, z_exit, pairs_state, bt_pairs_state,
                   bt_cash, bt_pnl_history, current_prices, no_quote, zlog, out, raised,
                   steps, zres, sizes>>

\* backtest(): one row of closes goes through step_backtest
StepBacktest ==
    /\ Backtesting
    /\ session.pc = "rows"
    /\ steps < StepLimit
    /\ steps' = steps + 1
    /\ \E prices \in Rows(session.valid_symbols) :
         \E r \in {StepBacktestResult(
                      [pairs_state |-> bt_pairs_state, bt_cash |-> bt_cash, out |-> <<>>],
                      bt_pnl_history, prices, steps + 1,
                      lookback_window, z_entry, z_exit)} :
             /\ bt_pairs_state' = r.self.pairs_state
             /\ bt_cash' = r.self.bt_cash
             /\ bt_pnl_history' = r.history
             /\ current_prices' = prices
             /\ zlog' = r.notes
             /\ out' = r.self.out
    /\ UNCHANGED <<mode, arith, twin, lookback_window, z_entry, z_exit, pairs_state, session,
                   no_quote, raised, zres, sizes>>

\* backtest() on a date for which get_stock_bars gives no bars ("No data
\* found.", return) or raises; run_bot's loop catches and goes on
NoData ==
    /\ Backtesting
    /\ session.pc = "idle"
    /\ session.day < MaxDays
    /\ \E kind \in {"none", "raised"} :
         session' = [session EXCEPT !.day = @ + 1, !.valid_symbols = {},
                                    !.first = steps, !.result = NoReport(kind)]
    /\ bt_pairs_state' = SkipSession(bt_pairs_state)
    /\ UNCHANGED <<mode, arith, twin, lookback_window, z_entry, z_exit, pairs_state,
                   bt_cash, bt_pnl_history, current_prices, no_quote, zlog, out, raised,
                   steps, zres, sizes>>

\* backtest() when no minute has a close for every valid symbol: the loop
\* has no row and closes.iloc[-1] raises, which run_bot's loop catches
NoOverlap ==
    /\ Backtesting
    /\ session.pc = "rows"
    /\ steps = session.first
    /\ session' = [session EXCEPT !.pc = "idle", !.result = NoReport("raised")]
    /\ bt_pairs_state' = SkipSession(bt_pairs_state)
    /\ UNCHANGED <<mode, arith, twin, lookback_window, z_entry, z_exit, pairs_state,
                   bt_cash, bt_pnl_history, current_prices, no_quote, zlog, out, raised,
                   steps, zres, sizes>>

\* backtest() after the last row: the force close at the last row's prices
\* and the report
EndSession ==
    /\ Backtesting
    /\ session.pc = "rows"
    /\ steps > session.first
    /\ \E closed \in {ForceClose([pairs_state |-> bt_pairs_state, bt_cash |-> bt_cash,
                                  out |-> <<>>], current_prices, 1)} :
         /\ bt_pairs_state' = closed.pairs_state
         /\ bt_cash' = closed.bt_cash
         /\ out' = closed.out
         /\ \E report \in {Report(closed, session.initial_equity, current_prices)} :
                session' = [session EXCEPT !.pc = "idle", !.result = report,
                                           !.reports = Append(@, report)]
    /\ UNCHANGED <<mode, arith, twin, lookback_window, z_entry, z_exit, pairs_state,
                   bt_pnl_history, current_prices, no_quote, zlog, raised, steps,
                   zres, sizes>>

(* The live loop of run_bot.main: an exception out of step() ends it *)

\* step(): get_stock_latest_trade raises and nothing else happens, or it
\* returns prices for some of the symbols and the pairs are gone through
Step ==
    /\ mode = "live"
    /\ ~raised
    /\ steps < StepLimit
    /\ steps' = steps + 1
    /\ \/ /\ raised' = TRUE
          /\ out' = <<>>
          /\ zlog' = [i \in 1..NPairs |-> Unreached]
          /\ no_quote' = {}
          /\ UNCHANGED pairs_state
       \/ \E prices \in Snapshots :
            \E r \in StepResults(pairs_state, prices, BuyingPowers,
                                 lookback_window, z_entry, z_exit) :
                /\ pairs_state' = r.self.pairs_state
                /\ out' = r.self.out
                /\ zlog' = r.notes
                /\ raised' = r.raised
                /\ no_quote' = {s \in Symbols : prices[s] = NoneVal}
    /\ UNCHANGED <<mode, arith, twin, lookback_window, z_entry, z_exit, bt_pairs_state, bt_cash,
                   bt_pnl_history, session, current_prices, zres, sizes>>

Next == FetchBars \/ StepBacktest \/ Step

Spec == Init /\ [][Next]_vars

----------------------------------------------------------------------------
(* The backtest on prices that are floats with full significands *)

InitFl ==
    /\ mode = "backtest"
    /\ arith = "float"
    /\ \E cfg \in FlConfigs : Construct(cfg)

NextFl == FetchBars \/ StepBacktest

SpecFl == InitFl /\ [][NextFl]_vars

----------------------------------------------------------------------------
(* The same snapshots given, step after step, to a live strategy whose      *)
(* venue never fails, to a backtest (run 1) and to a second backtest (run   *)
(* 2) that is called TwinLag later by the wall clock.                       *)

TwinLag == 1

\* the snapshots of these runs: every symbol quoted, or one symbol without a
\* quote and the others at the price 1
LockstepSnapshots ==
    { f \in Snapshots :
        \A s \in Symbols : f[s] = NoneVal => \A t \in Symbols \ {s} : f[t] = <<1>> }

InitLockstep ==
    /\ mode = "lockstep"
    /\ arith = "exact"
    /\ \E cfg \in LiveConfigs : Construct(cfg)

\* the outcomes of step() in which every venue call returned
NeverFails(results) ==
    { r \in results : ~r.raised /\ \A k \in 1..Len(r.self.out) : r.self.out[k].ok }

LockStep ==
    /\ mode = "lockstep"
    /\ steps < StepLimit
    /\ steps' = steps + 1
    /\ \E prices \in LockstepSnapshots :
         /\ \E r \in NeverFails(StepResults(pairs_state, prices, BuyingPowers,
                                             lookback_window, z_entry, z_exit)) :
                /\ pairs_state' = r.self.pairs_state
                /\ out' = r.self.out
                /\ zlog' = r.notes
         /\ \E run \in {[k \in 1..2 |->
                    StepBacktestAt(
                        IF k = 1
                        THEN [pairs_state |-> bt_pairs_state, bt_cash |-> bt_cash,
                              out |-> <<>>]
                        ELSE [pairs_state |-> twin.pairs_state, bt_cash |-> twin.bt_cash,
                              out |-> <<>>],
                        IF k = 1 THEN bt_pnl_history ELSE twin.bt_pnl_history,
                        prices, steps + 1, steps + 1 + (k - 1) * TwinLag,
                        lookback_window, z_entry, z_exit)]} :
                /\ bt_pairs_state' = run[1].self.pairs_state
                /\ bt_cash' = run[1].self.bt_cash
                /\ bt_pnl_history' = run[1].history
                /\ twin' = [pairs_state |-> run[2].self.pairs_state,
                            bt_cash |-> run[2].self.bt_cash,
                            bt_pnl_history |-> run[2].history,
                            same |-> twin.same]
         /\ current_prices' = prices
         /\ no_quote' = {s \in Symbols : prices[s] = NoneVal}
    /\ UNCHANGED <<mode, arith, lookback_window, z_entry, z_exit, session, raised,
                   zres, sizes>>

NextLockstep == LockStep

SpecLockstep == InitLockstep /\ [][NextLockstep]_vars

----------------------------------------------------------------------------
(* Two backtests stepped side by side: the first on fully quoted snapshots, *)
(* the second on snapshots that may differ from the first's, step by step,  *)
(* in a quote of one pair, the same pair throughout: its price, or whether  *)
(* it is there.  twin.same is the set of the pairs whose own two symbols    *)
(* have had the same quotes in both runs at every step so far.              *)

\* every symbol quoted
FullSnapshots == { f \in Snapshots : \A s \in Symbols : f[s] # NoneVal }

\* the pairs whose quotes the second run may be given differently
MayDiffer == IF twin.same = 1..NPairs THEN 1..NPairs ELSE (1..NPairs) \ twin.same

\* prices, or prices with one symbol of one of those pairs quoted otherwise
OtherSnapshots(prices) ==
    { f \in Snapshots :
        \E j \in MayDiffer : \E s \in {Pairs[j][1], Pairs[j][2]} :
            \A t \in Symbols \ {s} : f[t] = prices[t] }

\* the configurations of these runs: the shortest window
TwoRunsConfigs == { cfg \in Configs : cfg.lookback_window = 2 }

InitTwoRuns ==
    /\ mode = "tworuns"
    /\ arith = "exact"
    /\ \E cfg \in TwoRunsConfigs : Construct(cfg)

TwoRuns ==
    /\ mode = "tworuns"
    /\ steps < StepLimit
    /\ steps' = steps + 1
    /\ \E prices \in FullSnapshots :
         \E other \in OtherSnapshots(prices) :
           \E run \in {[k \in 1..2 |->
                    StepBacktestAt(
                        IF k = 1
                        THEN [pairs_state |-> bt_pairs_state, bt_cash |-> bt_cash,
                              out |-> <<>>]
                        ELSE [pairs_state |-> twin.pairs_state, bt_cash |-> twin.bt_cash,
                              out |-> <<>>],
                        IF k = 1 THEN bt_pnl_history ELSE twin.bt_pnl_history,
                        IF k = 1 THEN prices ELSE other,
                        steps + 1, steps + 1,
                        lookback_window, z_entry, z_exit)]} :
                /\ bt_pairs_state' = run[1].self.pairs_state
                /\ bt_cash' = run[1].self.bt_cash
                /\ bt_pnl_history' = run[1].history
                /\ zlog' = run[1].notes
                /\ out' = run[1].self.out
                /\ current_prices' = prices
                /\ twin' = [pairs_state |-> run[2].self.pairs_state,
                            bt_cash |-> run[2].self.bt_cash,
                            bt_pnl_history |-> run[2].history,
                            same |-> { i \in twin.same :
                                        /\ other[Pairs[i][1]] = prices[Pairs[i][1]]
                                        /\ other[Pairs[i][2]] = prices[Pairs[i][2]] }]
    /\ UNCHANGED <<mode, arith, lookback_window, z_entry, z_exit, pairs_state, session,
                   no_quote, raised, zres, sizes>>

NextTwoRuns == TwoRuns

SpecTwoRuns == InitTwoRuns /\ [][NextTwoRuns]_vars

----------------------------------------------------------------------------
(* The backtest with the unit tests' configuration, on bars that have       *)
(* closes for the first pair alone, in whole numbers and in floats.         *)

\* setUp: lookback_window = 5, z_entry = 2.0, z_exit = 0.5
BoundConfigs == { [lookback_window |-> 5, z_entry |-> <<2, 1>>, z_exit |-> <<1, 2>>] }

InitBound ==
    /\ mode = "backtest"
    /\ arith \in {"exact", "float"}
    /\ \E cfg \in BoundConfigs : Construct(cfg)

\* backtest(): the bars fetched have the first pair's two columns
FetchPairBars ==
    /\ FetchBars
    /\ session'.valid_symbols = {Pairs[1][1], Pairs[1][2]}

NextBound == FetchPairBars \/ StepBacktest

SpecBound == InitBound /\ [][NextBound]_vars

----------------------------------------------------------------------------
(* The engine, backtest or live, configured with two pairs that share the   *)
(* symbol A.                                                                *)

SharedPairs == << <<"A", "B">>, <<"A", "C">> >>

\* the configuration of these runs: it enters on 1.1 and exits under 1.0
SharedConfigs == { cfg \in Configs : cfg.z_entry = <<11, 10>> }

InitShared ==
    /\ mode \in {"backtest", "live"}
    /\ arith = "exact"
    /\ \E cfg \in SharedConfigs : ConstructWith(cfg, SharedPairs)

SpecShared == InitShared /\ [][Next]_vars

----------------------------------------------------------------------------
(* The engine constructed with any configuration.  Neither __init__ checks  *)
(* its arguments; deque(maxlen=lookback_window) raises ValueError for a     *)
(* negative window, and that is the one construction that fails.            *)

AnyConfigs ==
    { [lookback_window |-> -1, z_entry |-> <<1, 2>>, z_exit |-> <<1, 4>>],
      [lookback_window |-> 0,  z_entry |-> <<1, 2>>, z_exit |-> <<1, 4>>],
      [lookback_window |-> 1,  z_entry |-> <<1, 2>>, z_exit |-> <<1, 4>>],
      [lookback_window |-> 2,  z_entry |-> <<1, 4>>, z_exit |-> <<1, 1>>],
      [lookback_window |-> 2,  z_entry |-> <<0, 1>>, z_exit |-> <<0, 1>>],
      [lookback_window |-> 2,  z_entry |-> <<1, 2>>, z_exit |-> <<1, 4>>] }

\* the instance exists ("backtest", "live") or its construction raised
InitAnyConfig ==
    /\ arith = "exact"
    /\ \E cfg \in AnyConfigs :
         /\ Construct(cfg)
         /\ IF cfg.lookback_window < 0 THEN mode = "rejected"
            ELSE mode \in {"backtest", "live"}

SpecAnyConfig == InitAnyConfig /\ [][Next]_vars

----------------------------------------------------------------------------
(* The backtest campaign of run_bot: one instance, backtest() date after date *)

\* the configurations of the campaigns
CampaignConfigs == { cfg \in Configs : cfg.z_entry # <<1, 1>> }

InitCampaign ==
    /\ mode = "backtest"
    /\ arith = "exact"
    /\ \E cfg \in CampaignConfigs : Construct(cfg)

NextCampaign == FetchBars \/ NoData \/ NoOverlap \/ StepBacktest \/ EndSession

SpecCampaign == InitCampaign /\ [][NextCampaign]_vars

\* a longer campaign on the short window, for the books of several sessions
AccountsConfigs == { cfg \in Configs : cfg.lookback_window = 2 }

InitAccounts ==
    /\ mode = "campaign"
    /\ arith = "exact"
    /\ \E cfg \in AccountsConfigs : Construct(cfg)

SpecAccounts == InitAccounts /\ [][NextCampaign]_vars

----------------------------------------------------------------------------
(* The unit tests' use of the strategy: _update_spread and _compute_zscore  *)
(* called on the first pair's state, the spread scored being any value,     *)
(* in the window or not.                                                    *)

\* the windows and the spreads of the calls
ZWindows == {3, 5}

ZSpreads == {8, 10, 12, 13}

\* setUp: z_entry = 2.0, z_exit = 0.5
InitZ ==
    /\ mode = "unit"
    /\ arith = "exact"
    /\ \E W \in ZWindows :
         Construct([lookback_window |-> W, z_entry |-> <<2, 1>>, z_exit |-> <<1, 2>>])

UpdateSpreadCall ==
    /\ mode = "unit"
    /\ \E x \in ZSpreads :
         pairs_state' = [pairs_state EXCEPT ![1] = UpdateSpread(@, lookback_window, x)]
    /\ zres' = NoCall
    /\ UNCHANGED <<mode, arith, twin, lookback_window, z_entry, z_exit, bt_pairs_state,
                   bt_cash, bt_pnl_history, session, current_prices, no_quote, zlog,
                   out, raised, steps, sizes>>

ComputeZscoreCall ==
    /\ mode = "unit"
    /\ \E x \in ZSpreads :
         zres' = [arg |-> <<x>>,
                  res |-> ComputeZscore(pairs_state[1], lookback_window, x)]
    /\ UNCHANGED <<mode, arith, twin, lookback_window, z_entry, z_exit, pairs_state,
                   bt_pairs_state, bt_cash, bt_pnl_history, session, current_prices,
                   no_quote, zlog, out, raised, steps, sizes>>

NextZ == UpdateSpreadCall \/ ComputeZscoreCall

SpecZ == InitZ /\ [][NextZ]_vars

----------------------------------------------------------------------------
(* Position sizing called on its own, for any capital and prices *)

Capitals == {-500, 0, 5, 499, 1000, 200000}

SizePrices == {1, 3, 50, 200}

InitSize ==
    /\ mode = "sizing"
    /\ arith = "exact"
    /\ \E cfg \in Configs : Construct(cfg)

\* _position_sizes with get_account reporting buying_power = bp
PositionSizesCall ==
    /\ mode = "sizing"
    /\ \E bp \in Capitals, pa \in SizePrices, pb \in SizePrices :
         sizes' = [fn |-> "_position_sizes", capital |-> <<bp>>,
                   price_a |-> <<pa>>, price_b |-> <<pb>>,
                   qty |-> PositionSizes(pa, pb, bp)]
    /\ UNCHANGED <<mode, arith, twin, lookback_window, z_entry, z_exit, pairs_state,
                   bt_pairs_state, bt_cash, bt_pnl_history, session, current_prices,
                   no_quote, zlog, out, raised, steps, zres>>

BtPositionSizesCall ==
    /\ mode = "sizing"
    /\ \E eq \in Capitals, pa \in SizePrices, pb \in SizePrices :
         sizes' = [fn |-> "_bt_position_sizes", capital |-> <<eq>>,
                   price_a |-> <<pa>>, price_b |-> <<pb>>,
                   qty |-> BtPositionSizes(pa, pb, eq)]
    /\ UNCHANGED <<mode, arith, twin, lookback_window, z_entry, z_exit, pairs_state,
                   bt_pairs_state, bt_cash, bt_pnl_history, session, current_prices,
                   no_quote, zlog, out, raised, steps, zres>>

NextSize == PositionSizesCall \/ BtPositionSizesCall

SpecSize == InitSize /\ [][NextSize]_vars

----------------------------------------------------------------------------
(* What the claims speak of.  In an action formula the unprimed variables   *)
(* are the state before a step and the primed ones the state after it.      *)

PairIds == 1..NPairs

\* a step of the engine has run: step_backtest in backtest mode, step() live
IsStep == steps' = steps + 1

\* the engine's record of pair i in the running mode
PairOf(i) == IF mode = "live" THEN pairs_state[i] ELSE bt_pairs_state[i]

\* the last step computed a z-score for pair i that is not None
ValidZ(i) == zlog[i].seen = "scored" /\ zlog[i].res.z # NoneVal

ZOf(i) == zlog[i].res.z

\* z = t, for a z-score and a rational
ZEq(z, t) == z[1] = Sign(t[1]) /\ z[2] * t[2] * t[2] = t[1] * t[1] * z[3]

\* the price of symbol s in the last backtest step
PriceOf(s) == current_prices[s][1]

\* the last step traded pair i (backtest) or called the venue for one of its
\* symbols (live)
Traded(i) ==
    \E k \in 1..Len(out) :
        IF mode = "live"
        THEN out[k].symbol \in {pairs_state[i].symbol_a, pairs_state[i].symbol_b}
        ELSE out[k].pair = i

\* the last step sent an accepted order for qty > 0 of symbol s on side
Ordered(s, side) ==
    \E k \in 1..Len(out) :
        /\ out[k].call = "submit_order" /\ out[k].ok
        /\ out[k].symbol = s /\ out[k].side = side /\ out[k].qty >= 1

\* pair i keeps its positions over the step (backtest)
SamePositions(i) ==
    mode = "backtest" =>
        /\ bt_pairs_state'[i].pos_a = bt_pairs_state[i].pos_a
        /\ bt_pairs_state'[i].pos_b = bt_pairs_state[i].pos_b

\* pair i is short the spread after the step: leg A sold, leg B bought
ShortSpreadAfter(i) ==
    /\ PairOf(i)'.in_position
    /\ mode = "backtest" =>
            bt_pairs_state'[i].pos_a < 0 /\ bt_pairs_state'[i].pos_b > 0
    /\ mode = "live" =>
            /\ Ordered(pairs_state[i].symbol_a, "SELL")'
            /\ Ordered(pairs_state[i].symbol_b, "BUY")'

\* pair i is long the spread after the step: leg A bought, leg B sold
LongSpreadAfter(i) ==
    /\ PairOf(i)'.in_position
    /\ mode = "backtest" =>
            bt_pairs_state'[i].pos_a > 0 /\ bt_pairs_state'[i].pos_b < 0
    /\ mode = "live" =>
            /\ Ordered(pairs_state[i].symbol_a, "BUY")'
            /\ Ordered(pairs_state[i].symbol_b, "SELL")'

----------------------------------------------------------------------------
(* C1.  Entry, in step() and in step_backtest(): a FLAT pair whose step     *)
(* yields a valid z-score ends the step short the spread (A sold, B bought) *)
(* and in_position when z > z_entry, long the spread (A bought, B sold) and *)
(* in_position when z < -z_entry, and FLAT when -z_entry <= z <= z_entry.   *)
C1_Entry ==
    [][IsStep =>
        \A i \in PairIds :
            (~PairOf(i).in_position /\ ValidZ(i)') =>
                /\ ZGt(ZOf(i)', z_entry) => ShortSpreadAfter(i)
                /\ ZLt(ZOf(i)', Neg(z_entry)) => LongSpreadAfter(i)
                /\ (~ZGt(ZOf(i)', z_entry) /\ ~ZLt(ZOf(i)', Neg(z_entry)))
                        => ~PairOf(i)'.in_position]_vars

----------------------------------------------------------------------------
\* the pairs the step closes: OPEN before it, valid z-score, |z| < z_exit
Closing == { i \in PairIds : PairOf(i).in_position /\ ValidZ(i)'
                              /\ ZAbsLt(ZOf(i)', z_exit) }

\* the pairs the step enters (backtest)
Entering == { i \in PairIds : ~bt_pairs_state[i].in_position
                               /\ bt_pairs_state'[i].in_position }

\* what the positions of pair i are worth at the step's prices
PositionValue(i) ==
    bt_pairs_state[i].pos_a * PriceOf(bt_pairs_state[i].symbol_a)'
        + bt_pairs_state[i].pos_b * PriceOf(bt_pairs_state[i].symbol_b)'

\* what the step's closes pay into the cash
ClosingValue[i \in 0..NPairs] ==
    IF i = 0 THEN 0
    ELSE ClosingValue[i - 1] + (IF i \in Closing THEN PositionValue(i) ELSE 0)

(* C2.  Exit: an OPEN pair whose step yields a valid z-score with           *)
(* |z| < z_exit is FLAT after the step, whichever way it was opened; in the *)
(* backtest both its positions are then zero and the cash has grown by      *)
(* pos_a * price_a + pos_b * price_b at the step's prices (stated for the   *)
(* steps in which no pair enters, so that the cash moves by closes only).   *)
C2_Exit ==
    [][IsStep =>
        /\ \A i \in Closing :
                /\ ~PairOf(i)'.in_position
                /\ mode = "backtest" =>
                        /\ bt_pairs_state'[i].pos_a = 0
                        /\ bt_pairs_state'[i].pos_b = 0
        /\ (mode = "backtest" /\ Entering = {}) =>
                bt_cash' = bt_cash + ClosingValue[NPairs]]_vars

\* one backtest step has closed a pair that was short the spread and a pair
\* that was long the spread
C2_Witness ==
    /\ mode = "backtest"
    /\ \E k, l \in 1..Len(out) :
            /\ out[k].kind = "CLOSE" /\ out[k].qty_a < 0 /\ out[k].qty_b > 0
            /\ out[l].kind = "CLOSE" /\ out[l].qty_a > 0 /\ out[l].qty_b < 0
    /\ \A i \in PairIds :
            /\ ValidZ(i) /\ ZAbsLt(ZOf(i), z_exit)
            /\ ~bt_pairs_state[i].in_position
            /\ bt_pairs_state[i].pos_a = 0 /\ bt_pairs_state[i].pos_b = 0

----------------------------------------------------------------------------
(* C3.  Ties do not trigger: a FLAT pair whose z-score is exactly z_entry   *)
(* or exactly -z_entry stays FLAT, and an OPEN pair whose |z| is exactly    *)
(* z_exit stays OPEN; neither trades, and its positions are unchanged.      *)
C3_Ties ==
    [][IsStep =>
        \A i \in PairIds :
            ValidZ(i)' =>
                /\ (/\ ~PairOf(i).in_position
                    /\ (ZEq(ZOf(i)', z_entry) \/ ZEq(ZOf(i)', Neg(z_entry))))
                        => (~PairOf(i)'.in_position /\ SamePositions(i)
                            /\ ~Traded(i)')
                /\ (/\ PairOf(i).in_position
                    /\ (ZEq(ZOf(i)', z_exit) \/ ZEq(ZOf(i)', Neg(z_exit))))
                        => (PairOf(i)'.in_position /\ SamePositions(i)
                            /\ ~Traded(i)')]_vars

\* an OPEN pair has met |z| = z_exit exactly and is still OPEN
C3_Witness ==
    \E i \in PairIds :
        /\ ValidZ(i) /\ (ZEq(ZOf(i), z_exit) \/ ZEq(ZOf(i), Neg(z_exit)))
        /\ PairOf(i).in_position /\ ~Traded(i)

\* a FLAT pair has met z = z_entry exactly and is still FLAT
C3_WitnessEntry ==
    \E i \in PairIds :
        /\ ValidZ(i) /\ ZEq(ZOf(i), z_entry)
        /\ ~PairOf(i).in_position /\ ~Traded(i)

----------------------------------------------------------------------------
\* the last step computed the z-score of pair i and it was None
NoneZ(i) == zlog[i].seen = "scored" /\ zlog[i].res.z = NoneVal

(* C4.  A pair whose z-score is None in a step makes no transition in it:   *)
(* in_position and the positions are unchanged and no order is placed for   *)
(* it; a step in which no pair trades leaves the cash unchanged, and a step *)
(* in which no pair has a z-score calls the venue for nothing.              *)
C4_NoneHolds ==
    [][IsStep =>
        /\ \A i \in PairIds :
                NoneZ(i)' =>
                    /\ PairOf(i)'.in_position = PairOf(i).in_position
                    /\ SamePositions(i)
                    /\ ~Traded(i)'
        /\ (mode = "backtest" /\ out' = <<>>) => bt_cash' = bt_cash
        /\ (\A i \in PairIds : ~ValidZ(i)') => out' = <<>>]_vars

\* an OPEN pair whose full window holds one value W times: its z-score was
\* None and it is still OPEN
C4_Witness ==
    \E i \in PairIds :
        /\ NoneZ(i) /\ PairOf(i).in_position /\ ~Traded(i)
        /\ Len(PairOf(i).spreads) = lookback_window
        /\ \A k \in 1..lookback_window :
                PairOf(i).spreads[k] = PairOf(i).spreads[1]

----------------------------------------------------------------------------
\* the last step had no price for a leg of pair i
MissingQuote(i) ==
    IF mode = "live"
    THEN pairs_state[i].symbol_a \in no_quote \/ pairs_state[i].symbol_b \in no_quote
    ELSE \/ current_prices[bt_pairs_state[i].symbol_a] = NoneVal
         \/ current_prices[bt_pairs_state[i].symbol_b] = NoneVal

\* the step has put exactly one spread into the window of pair i
OneSpreadIn(i) ==
    /\ PairOf(i)'.spreads # <<>>
    /\ PairOf(i)'.spreads =
            DequeAppend(PairOf(i).spreads, lookback_window, Last(PairOf(i)'.spreads))

(* C9.  A pair with a leg that has no price in a step is skipped for that   *)
(* step: its window, in_position and positions are unchanged, no order is   *)
(* placed for it, and the step raises nothing because of it (live, a step   *)
(* raises only out of a venue call, and never a call for this pair; the     *)
(* backtest step completes and records its equity sample).  A step in       *)
(* which nothing trades leaves the cash unchanged.  The other pairs, with   *)
(* both prices, are processed in the same step.                             *)
C9_MissingQuote ==
    [][IsStep =>
        \A i \in PairIds :
            MissingQuote(i)' =>
                /\ PairOf(i)' = PairOf(i)
                /\ zlog'[i].seen # "scored"
                /\ ~Traded(i)'
                /\ raised' => (out' # <<>> /\ ~Last(out').ok)
                /\ mode = "backtest" =>
                        /\ Len(bt_pnl_history') = Len(bt_pnl_history) + 1
                        /\ out' = <<>> => bt_cash' = bt_cash
                /\ \A j \in PairIds :
                        ~MissingQuote(j)' =>
                            zlog'[j].seen = "scored" /\ OneSpreadIn(j)]_vars

\* a step has skipped the first pair for a missing price and has scored and
\* entered the second
C9_Witness ==
    /\ MissingQuote(1) /\ zlog[1] = Skipped /\ ~PairOf(1).in_position
    /\ ~MissingQuote(2) /\ ValidZ(2) /\ PairOf(2).in_position /\ Traded(2)

----------------------------------------------------------------------------
\* the window of pair i is full and holds one value
Collapsed(i) ==
    /\ Len(PairOf(i).spreads) = lookback_window
    /\ \A k \in 1..lookback_window : PairOf(i).spreads[k] = PairOf(i).spreads[1]

(* C6.  Zero variance: whenever the window holds exactly W identical values *)
(* v, _compute_zscore returns z = None, mean = v and std = 0.               *)
C6_ZeroVariance ==
    \A i \in PairIds :
        (zlog[i].seen = "scored" /\ Collapsed(i)) =>
            /\ zlog[i].res.z = NoneVal
            /\ zlog[i].res.mean[1] = PairOf(i).spreads[1] * zlog[i].res.mean[2]
            /\ zlog[i].res.std[1] = 0

(* C4, as it is claimed for the collapsed window: a pair whose window holds *)
(* W identical spreads after a step has made no transition in that step:    *)
(* in_position and the positions are unchanged and nothing is traded.       *)
C4_CollapsedHolds ==
    [][IsStep =>
        \A i \in PairIds :
            (zlog'[i].seen = "scored" /\ Collapsed(i)') =>
                /\ PairOf(i)'.in_position = PairOf(i).in_position
                /\ SamePositions(i)
                /\ ~Traded(i)']_vars

----------------------------------------------------------------------------
(* The unit-test harness: the window and the call *)

Window == pairs_state[1].spreads

ZCalled == zres.arg # NoneVal

(* C5.  Warm-up: while fewer than W spreads have been recorded,             *)
(* _compute_zscore returns (None, None, None) whatever the values; with W   *)
(* recorded it returns a mean.                                              *)
C5_WarmUp ==
    ZCalled =>
        /\ Len(Window) < lookback_window => zres.res = ZNone
        /\ Len(Window) = lookback_window => zres.res.mean # NoneVal

\* _compute_zscore has been called on a window one spread short of W
C5_Witness ==
    /\ ZCalled /\ Len(Window) = lookback_window - 1
    /\ zres.res.z = NoneVal /\ zres.res.mean = NoneVal /\ zres.res.std = NoneVal

----------------------------------------------------------------------------
\* the sum of the squares of the window, and W * that less the squared sum:
\* W * (W - 1) times the sample variance
SumSquares == SumSeq([k \in 1..Len(Window) |-> Window[k] * Window[k]])

Scatter == Len(Window) * SumSquares - SumSeq(Window) * SumSeq(Window)

(* C7.  For a full window with non-zero variance _compute_zscore(state, s)  *)
(* returns the arithmetic mean sum/W, the standard deviation whose square   *)
(* is the sum of squared deviations over W - 1, which by the moment         *)
(* identity is (W * sum(x^2) - sum(x)^2) / (W * (W - 1)), and               *)
(* z = (s - mean) / std, whose sign is that of s - mean.                    *)
C7_ZFormula ==
    (ZCalled /\ Len(Window) = lookback_window /\ Scatter # 0) =>
        LET n == lookback_window
            S == SumSeq(Window)
            s == zres.arg[1]
            r == zres.res
        IN  /\ r.z # NoneVal
            /\ r.mean[1] * n = S * r.mean[2]
            /\ r.std[1] * (n * (n - 1)) = Scatter * r.std[2]
            /\ r.z[1] = Sign(n * s - S)
            /\ r.z[2] * (n * Scatter) = ((n * s - S) * (n * s - S) * (n - 1)) * r.z[3]

\* a spread below the mean of a full window that varies has been scored:
\* z is negative
C7_Witness ==
    /\ ZCalled /\ Len(Window) = lookback_window /\ Scatter # 0
    /\ zres.arg[1] * lookback_window < SumSeq(Window)
    /\ zres.res.z # NoneVal /\ zres.res.z[1] = -1

----------------------------------------------------------------------------
RECURSIVE Gcd(_, _)
Gcd(a, b) == IF b = 0 THEN a ELSE Gcd(b, a % b)

\* the root of the rational r >= 0 is x/scale to within 1/scale
RootNear(r, x, scale) ==
    LET g == Gcd(r[1], r[2])
        n == r[1] \div g
        d == r[2] \div g
    IN  /\ (x - 1) * (x - 1) * d <= n * scale * scale
        /\ n * scale * scale <= (x + 1) * (x + 1) * d

\* the worked example: W = 5, the window [10, 12, 10, 8, 10], the spread 13
WorkedExample ==
    /\ ZCalled /\ lookback_window = 5
    /\ Window = <<10, 12, 10, 8, 10>> /\ zres.arg = <<13>>

(* C8, as the code computes it.  For W = 5, the window [10, 12, 10, 8, 10]  *)
(* and the spread 13: the mean is 10.0, the sample standard deviation       *)
(* (ddof = 1) is sqrt(8/4), about 1.4142, and z is 3/1.4142, about 2.1213.  *)
C8_Example ==
    WorkedExample =>
        /\ zres.res.mean[1] = 10 * zres.res.mean[2]
        /\ RootNear(zres.res.std, 14142, 10000)
        /\ zres.res.z # NoneVal /\ zres.res.z[1] = 1
        /\ RootNear(<<zres.res.z[2], zres.res.z[3]>>, 21213, 10000)

(* C8, as it is claimed: the mean is 10.0, the standard deviation about     *)
(* 1.5811 and z about 1.897.                                                *)
C8_AsClaimed ==
    WorkedExample =>
        /\ zres.res.mean[1] = 10 * zres.res.mean[2]
        /\ RootNear(zres.res.std, 15811, 10000)
        /\ zres.res.z # NoneVal /\ zres.res.z[1] = 1
        /\ RootNear(<<zres.res.z[2], zres.res.z[3]>>, 1897, 1000)

\* the worked example has been computed
C8_Witness == WorkedExample /\ zres.res.z # NoneVal

----------------------------------------------------------------------------
\* q is what the claim gives a leg of price p for the capital C:
\* max(floor((C / 10) / p), 1), the floor being the whole number f with
\* f * 10 * p <= C < (f + 1) * 10 * p
LegQty(q, C, p) ==
    /\ q >= 1
    /\ q > 1 => (q * (10 * p) <= C /\ C < (q + 1) * (10 * p))
    /\ q = 1 => C < 2 * (10 * p)

C10_WitnessNegative ==
    /\ sizes.qty # NoneVal /\ sizes.capital[1] < 0 /\ sizes.qty = <<1, 1>>

----------------------------------------------------------------------------
\* the backtest has closed pair i, by signal or by force, in its last move
ClosedLast(i) ==
    \E k \in 1..Len(out) :
        out[k].pair = i /\ out[k].kind = "CLOSE" /\ out[k].qty_a # 0 /\ out[k].qty_b # 0

(* C11.  Backtest: in every state the campaign reaches, after any steps and *)
(* any end-of-session force closes, a pair that is not in_position has      *)
(* pos_a = 0 and pos_b = 0.                                                 *)
C11_FlatHoldsNothing ==
    \A i \in PairIds :
        ~bt_pairs_state[i].in_position =>
            bt_pairs_state[i].pos_a = 0 /\ bt_pairs_state[i].pos_b = 0

\* a step has closed a pair on its signal while the other pair stays open
C11_Witness ==
    /\ session.pc = "rows"
    /\ \E i, j \in PairIds :
            /\ ClosedLast(i) /\ ~bt_pairs_state[i].in_position
            /\ bt_pairs_state[i].pos_a = 0 /\ bt_pairs_state[i].pos_b = 0
            /\ bt_pairs_state[j].in_position /\ bt_pairs_state[j].pos_a # 0

----------------------------------------------------------------------------
\* what a position is worth at a price; nothing is held where no price is
Worth(pos, p) == IF p = NoneVal THEN 0 ELSE pos * p[1]

\* every position held has a price in the last snapshot
AllPriced ==
    \A i \in PairIds :
        /\ bt_pairs_state[i].pos_a # 0 => current_prices[bt_pairs_state[i].symbol_a] # NoneVal
        /\ bt_pairs_state[i].pos_b # 0 => current_prices[bt_pairs_state[i].symbol_b] # NoneVal

\* the sum over the pairs 1..i of pos_a * price_a + pos_b * price_b
HeldValue[i \in 0..NPairs] ==
    IF i = 0 THEN 0
    ELSE HeldValue[i - 1]
            + Worth(bt_pairs_state[i].pos_a, current_prices[bt_pairs_state[i].symbol_a])
            + Worth(bt_pairs_state[i].pos_b, current_prices[bt_pairs_state[i].symbol_b])

TotalEquity == bt_cash + HeldValue[NPairs]

(* C12.  Equity: each step_backtest appends exactly one (ts, equity) sample *)
(* to the history, the earlier samples staying as they are, and the equity  *)
(* recorded is the cash after the step's trades plus, over all the pairs,   *)
(* pos_a * price_a + pos_b * price_b at the step's prices; nothing else     *)
(* touches the history.                                                     *)
C12_Equity ==
    [][/\ IsStep =>
            /\ AllPriced'
            /\ bt_pnl_history' = Append(bt_pnl_history, <<steps', TotalEquity'>>)
       /\ ~IsStep => bt_pnl_history' = bt_pnl_history]_vars

\* a step has recorded an equity that is not the cash, with one pair long
\* the spread, the other short, and earlier samples in the history
C12_Witness ==
    /\ session.pc = "rows"
    /\ Len(bt_pnl_history) >= 3
    /\ Last(bt_pnl_history)[2] # bt_cash
    /\ Last(bt_pnl_history)[2] # InitialCash
    /\ \E i, j \in PairIds : bt_pairs_state[i].pos_a > 0 /\ bt_pairs_state[j].pos_a < 0

----------------------------------------------------------------------------
\* backtest() returns its report in this move
Reports == session.pc = "rows" /\ session'.pc = "idle" /\ session'.result.kind = "report"

(* C13.  End of session: when backtest() returns its report, after the last *)
(* row has been processed, every pair that was still OPEN has been closed   *)
(* at the last row's prices (the cash grows by what the positions are worth *)
(* at them), every pair has pos_a = pos_b = 0 and in_position = false, and  *)
(* the final_equity reported is the cash exactly.                           *)
C13_Liquidation ==
    [][Reports =>
        /\ \A i \in PairIds :
                /\ ~bt_pairs_state'[i].in_position
                /\ bt_pairs_state'[i].pos_a = 0 /\ bt_pairs_state'[i].pos_b = 0
        /\ AllPriced
        /\ bt_cash' = TotalEquity
        /\ session'.result.final_equity = bt_cash'
        /\ session'.result.total_pnl = bt_cash' - session.initial_equity]_vars

\* a session has ended with both pairs force-closed, at a profit or a loss
C13_Witness ==
    /\ session.pc = "idle" /\ session.result.kind = "report"
    /\ \A i \in PairIds : ClosedLast(i) /\ ~bt_pairs_state[i].in_position
    /\ session.result.total_pnl # 0
    /\ session.result.final_equity = bt_cash

----------------------------------------------------------------------------
\* the last step sent an order for a leg of pair i that the venue refused
OrderFailed(i) ==
    \E k \in 1..Len(out) :
        /\ out[k].call = "submit_order" /\ ~out[k].ok
        /\ out[k].symbol \in {pairs_state[i].symbol_a, pairs_state[i].symbol_b}

(* C14.  Live entry with a failing venue: when submit_order fails for a leg *)
(* of a FLAT pair that is entering, nothing propagates out of step(), the   *)
(* pair's in_position is set to true all the same, and the pairs after it   *)
(* are still processed in that step.                                        *)
C14_OrderFailureCaught ==
    [][(IsStep /\ mode = "live") =>
        \A i \in PairIds :
            OrderFailed(i)' =>
                /\ ~raised'
                /\ pairs_state'[i].in_position
                /\ \A j \in PairIds : zlog'[j].seen # "unreached"]_vars

----------------------------------------------------------------------------
\* the last step called close_position for leg A of pair i and then for its
\* leg B, with the outcomes oka and okb
CloseCalls(i, oka, okb) ==
    \E k \in 1..(Len(out) - 1) :
        /\ out[k] = VenueCall("close_position", pairs_state[i].symbol_a, 0, "", oka)
        /\ out[k + 1] = VenueCall("close_position", pairs_state[i].symbol_b, 0, "", okb)

(* C15.  Live close with a failing venue: when an OPEN pair closes,         *)
(* close_position is called for leg A and then for leg B whether or not the *)
(* first call failed, in_position is false afterwards whether zero, one or  *)
(* both calls failed, and no failure of a close leaves step(): the next     *)
(* pair is processed, and a step that does raise has not raised in a close. *)
C15_CloseFailureCaught ==
    [][(IsStep /\ mode = "live") =>
        \A i \in PairIds :
            (/\ pairs_state[i].in_position
             /\ ValidZ(i)' /\ ZAbsLt(ZOf(i)', z_exit)) =>
                /\ \E oka, okb \in BOOLEAN : CloseCalls(i, oka, okb)'
                /\ ~pairs_state'[i].in_position
                /\ i < NPairs => zlog'[i + 1].seen # "unreached"
                /\ raised' => Last(out').call # "close_position"]_vars

\* a step has closed the first pair with both close_position calls failing,
\* has gone on to the second pair, and has returned
C15_Witness ==
    /\ mode = "live" /\ ~raised
    /\ CloseCalls(1, FALSE, FALSE)
    /\ ~pairs_state[1].in_position
    /\ zlog[2].seen = "scored"

\* a step has closed a pair with the call for leg A failing and the call for
\* leg B returning
C15_WitnessOneFailed ==
    /\ mode = "live" /\ ~raised
    /\ \E i \in PairIds : CloseCalls(i, FALSE, TRUE) /\ ~pairs_state[i].in_position

----------------------------------------------------------------------------
\* t > 0, t >= 0 and t < u for rationals
RatPos(t) == t[1] > 0

RatLess(t, u) == t[1] * u[2] < u[1] * t[2]

\* the configuration is within W >= 2, z_entry > 0, 0 <= z_exit < z_entry
WellFormed ==
    /\ lookback_window >= 2
    /\ RatPos(z_entry)
    /\ z_exit[1] >= 0 /\ RatLess(z_exit, z_entry)

(* C16.  A malformed configuration (a lookback window that is not positive, *)
(* or one outside W >= 2, z_entry > 0, 0 <= z_exit < z_entry) is rejected   *)
(* at construction: no step ever runs on such an instance.                  *)
C16_MalformedRejected == ~WellFormed => steps = 0

----------------------------------------------------------------------------
\* pair i enters in the step: FLAT before it, in_position after it (live)
Enters(i) == ~pairs_state[i].in_position /\ pairs_state'[i].in_position

(* C17.  The same signal logic in both modes: with the same configuration,  *)
(* pairs and snapshots, and a venue that never fails, each pair's           *)
(* in_position after every step of the live strategy is its in_position     *)
(* after the same step of the backtest (and so is its window of spreads),   *)
(* and a pair that enters does so in the same direction in both.            *)
C17_SameSignals ==
    [][IsStep =>
        \A i \in PairIds :
            /\ pairs_state'[i].in_position = bt_pairs_state'[i].in_position
            /\ pairs_state'[i].spreads = bt_pairs_state'[i].spreads
            /\ Enters(i) =>
                \/ /\ Ordered(pairs_state[i].symbol_a, "SELL")'
                   /\ Ordered(pairs_state[i].symbol_b, "BUY")'
                   /\ bt_pairs_state'[i].pos_a < 0 /\ bt_pairs_state'[i].pos_b > 0
                \/ /\ Ordered(pairs_state[i].symbol_a, "BUY")'
                   /\ Ordered(pairs_state[i].symbol_b, "SELL")'
                   /\ bt_pairs_state'[i].pos_a > 0 /\ bt_pairs_state'[i].pos_b < 0]_vars

\* a lockstep step in which the live strategy closes one pair, as does the
\* backtest, while the other pair is open in both
C17_Witness ==
    /\ mode = "lockstep"
    /\ \E i, j \in PairIds :
            /\ \E oka, okb \in BOOLEAN : CloseCalls(i, oka, okb)
            /\ ~pairs_state[i].in_position /\ ~bt_pairs_state[i].in_position
            /\ pairs_state[j].in_position /\ bt_pairs_state[j].in_position
            /\ bt_pairs_state[j].pos_a # 0

----------------------------------------------------------------------------
\* the equity values of a history
Equities(history) == [k \in 1..Len(history) |-> history[k][2]]

----------------------------------------------------------------------------
\* the last min(Len(q), W) values of q, in their order
MostRecent(q, W) == SubSeq(q, Len(q) - (IF Len(q) < W THEN Len(q) ELSE W) + 1, Len(q))

\* the step gives pair i a spread: both its legs have a price
Updates(i) == IsStep /\ zlog'[i].seen = "scored"

(* C19.  Rolling window.  A valid spread update of a pair leaves in its     *)
(* buffer the most recent W values of the old buffer followed by the new    *)
(* spread, in insertion order, so that after n updates it holds the last    *)
(* min(n, W) spreads, the oldest evicted first; the length never exceeds W  *)
(* and never decreases; and nothing else touches the buffer: not a step     *)
(* that skips the pair, not the end of a session, not a session without     *)
(* data, not the start of the next session of the campaign.                 *)
C19_RollingWindow ==
    [][\A i \in PairIds :
        LET before == bt_pairs_state[i].spreads
            after  == bt_pairs_state'[i].spreads
            spread == PriceOf(bt_pairs_state[i].symbol_a)' - PriceOf(bt_pairs_state[i].symbol_b)'
        IN  /\ Updates(i) => after = MostRecent(Append(before, spread), lookback_window)
            /\ ~Updates(i) => after = before
            /\ Len(after) <= lookback_window
            /\ Len(after) >= Len(before)]_vars

\* in the second session of a campaign a pair's buffer, just updated, holds
\* more spreads than the session has had rows: some are the first session's
C19_Witness ==
    /\ session.day = 2 /\ session.pc = "rows"
    /\ steps > session.first
    /\ \E i \in PairIds :
            /\ zlog[i].seen = "scored"
            /\ Len(bt_pairs_state[i].spreads) > steps - session.first

\* a pair updated in each of W + 1 rows has a full buffer whose oldest spread
\* has been evicted
C19_WitnessEvicted ==
    /\ session.day = 1 /\ session.valid_symbols = Symbols
    /\ steps = lookback_window + 1
    /\ \E i \in PairIds :
            /\ Len(bt_pairs_state[i].spreads) = lookback_window
            /\ bt_pairs_state[i].spreads[1] # Last(bt_pairs_state[i].spreads)

----------------------------------------------------------------------------
\* backtest() ends in this move without a report: no bars, no row, or the
\* data client raised
SessionSkipped ==
    /\ session' # session
    /\ session'.pc = "idle"
    /\ session'.result.kind # "report"

(* C20.  A backtest session without data is skipped and is not fatal:       *)
(* backtest() for that date runs no step and leaves the cash, the equity    *)
(* history and every pair's spreads, in_position and positions as they      *)
(* were, and the campaign is ready for the next date.                       *)
C20_NoDataSkipped ==
    [][SessionSkipped =>
        /\ steps' = steps
        /\ bt_cash' = bt_cash
        /\ bt_pnl_history' = bt_pnl_history
        /\ bt_pairs_state' = bt_pairs_state
        /\ mode' = "backtest" /\ ~raised']_vars

\* the second date of a campaign had no data, after a first session that
\* filled windows, moved the cash and recorded equity
C20_Witness ==
    /\ session.day = 2 /\ session.pc = "idle" /\ session.result.kind = "none"
    /\ steps > 0
    /\ bt_cash # InitialCash
    /\ Len(bt_pnl_history) = steps
    /\ \E i \in PairIds : Len(bt_pairs_state[i].spreads) > 1

\* the campaign has gone on: the first date was skipped and the second has
\* rows
C20_WitnessProceeds ==
    /\ session.day = 2 /\ session.pc = "rows"
    /\ session.first = 0 /\ steps > 0

----------------------------------------------------------------------------
\* the sum of total_pnl over the first k reports of the campaign
PnlSum[k \in 0..MaxDays] ==
    IF k = 0 THEN 0
    ELSE IF k > Len(session.reports) THEN PnlSum[k - 1]
    ELSE PnlSum[k - 1] + session.reports[k].total_pnl

(* C21.  Accounting.  Each session's report has total_pnl = final_equity -  *)
(* initial_equity and return_pct = total_pnl / initial_equity * 100, with   *)
(* initial_equity the cash at the session's start; the cash is carried from *)
(* session to session: the first report starts from the initial cash, each  *)
(* later one from the final_equity of the one before, and between sessions  *)
(* the cash minus the initial cash is the sum of the sessions' total_pnl.   *)
C21_Accounting ==
    /\ \A k \in 1..Len(session.reports) :
        LET r == session.reports[k]
        IN  /\ r.total_pnl = r.final_equity - r.initial_equity
            /\ r.return_pct = <<r.total_pnl * 100, r.initial_equity>>
            /\ r.initial_equity # 0
            /\ r.initial_equity = (IF k = 1 THEN InitialCash
                                   ELSE session.reports[k - 1].final_equity)
    /\ session.pc = "rows" => session.initial_equity =
            (IF session.reports = <<>> THEN InitialCash
             ELSE Last(session.reports).final_equity)
    /\ session.pc = "idle" => bt_cash - InitialCash = PnlSum[MaxDays]

\* two sessions have reported, the first with a profit or a loss, and the
\* second has traded as well
C21_Witness ==
    /\ session.pc = "idle" /\ Len(session.reports) = 2
    /\ session.reports[1].total_pnl # 0
    /\ session.reports[2].initial_equity # InitialCash
    /\ out # <<>>
    /\ bt_cash = InitialCash + session.reports[1].total_pnl + session.reports[2].total_pnl

----------------------------------------------------------------------------
\* how many trades (backtest) or venue calls for its symbols (live) the last
\* step made for pair i
ActionsOn(i) ==
    Cardinality({ k \in 1..Len(out) :
        IF mode = "live"
        THEN out[k].symbol \in {pairs_state[i].symbol_a, pairs_state[i].symbol_b}
        ELSE out[k].pair = i })

\* the last step sent an order, accepted or refused, for a leg of pair i
OrderSent(i) ==
    \E k \in 1..Len(out) :
        /\ out[k].call = "submit_order"
        /\ out[k].symbol \in {pairs_state[i].symbol_a, pairs_state[i].symbol_b}

(* C22.  No reversal, one action a step.  In a step an OPEN pair never      *)
(* enters: it holds, with pos_a and pos_b as they were, or it closes; a     *)
(* pair that closes does not enter again in that step; a pair open one way  *)
(* is never open the other way after one step; and a step trades a pair at  *)
(* most once (live: one entry, two orders, or one close, two calls).        *)
C22_NoReversal ==
    [][IsStep =>
        \A i \in PairIds :
            /\ (mode = "backtest" /\ bt_pairs_state[i].in_position) =>
                    /\ \/ /\ bt_pairs_state'[i].in_position
                          /\ bt_pairs_state'[i].pos_a = bt_pairs_state[i].pos_a
                          /\ bt_pairs_state'[i].pos_b = bt_pairs_state[i].pos_b
                          /\ ~Traded(i)'
                       \/ /\ ~bt_pairs_state'[i].in_position
                          /\ bt_pairs_state'[i].pos_a = 0
                          /\ bt_pairs_state'[i].pos_b = 0
            /\ mode = "backtest" => ActionsOn(i)' <= 1
            /\ (mode = "live" /\ pairs_state[i].in_position) => ~OrderSent(i)'
            /\ mode = "live" => ActionsOn(i)' <= 2]_vars

\* a pair that is long the spread has just scored z > z_entry, the signal to
\* go short, and holds its long position untraded
C22_Witness ==
    /\ mode = "backtest"
    /\ \E i \in PairIds :
            /\ bt_pairs_state[i].in_position
            /\ bt_pairs_state[i].pos_a > 0 /\ bt_pairs_state[i].pos_b < 0
            /\ ValidZ(i) /\ ZGt(ZOf(i), z_entry)
            /\ ~Traded(i)

\* the same live: an open pair scores beyond the entry threshold and no order
\* is sent for it
C22_WitnessLive ==
    /\ mode = "live" /\ ~raised
    /\ \E i \in PairIds :
            /\ pairs_state[i].in_position
            /\ ValidZ(i) /\ (ZGt(ZOf(i), z_entry) \/ ZLt(ZOf(i), Neg(z_entry)))
            /\ ~Traded(i)

----------------------------------------------------------------------------
\* the step's snapshot prices every symbol
EveryPairPriced == \A s \in Symbols : current_prices[s] # NoneVal

\* the trade the last step recorded for pair i, if any
TradeOf(i) == { out[k] : k \in { n \in 1..Len(out) : out[n].pair = i } }

(* C23.  Backtest trades are equity-neutral at the trade price.  In a step,  *)
(* at the step's prices pa, pb of a pair: an entry long adds qty_a to pos_a  *)
(* and takes qty_b from pos_b, an entry short the reverse, a close zeroes    *)
(* both; the cash moves by minus the value the step's trades added to the    *)
(* positions (long: - qty_a * pa + qty_b * pb; short: + qty_a * pa           *)
(* - qty_b * pb; close: + pos_a * pa + pos_b * pb); so when the step has a   *)
(* price for every symbol, the equity it records is the equity of the cash  *)
(* and positions it started from, at the same prices.                       *)
C23_EquityNeutral ==
    [][IsStep =>
        LET price(s) == current_prices'[s]
            was(i)   == bt_pairs_state[i]
            now(i)   == bt_pairs_state'[i]
            flow[i \in 0..NPairs] ==
                IF i = 0 THEN 0
                ELSE flow[i - 1]
                     + Worth(was(i).pos_a - now(i).pos_a, price(was(i).symbol_a))
                     + Worth(was(i).pos_b - now(i).pos_b, price(was(i).symbol_b))
            start[i \in 0..NPairs] ==
                IF i = 0 THEN bt_cash
                ELSE start[i - 1]
                     + Worth(was(i).pos_a, price(was(i).symbol_a))
                     + Worth(was(i).pos_b, price(was(i).symbol_b))
        IN  /\ \A i \in PairIds :
                /\ TradeOf(i)' = {} =>
                        now(i).pos_a = was(i).pos_a /\ now(i).pos_b = was(i).pos_b
                /\ \A t \in TradeOf(i)' :
                        /\ price(was(i).symbol_a) # NoneVal
                        /\ price(was(i).symbol_b) # NoneVal
                        /\ t.kind = "BUY SPREAD" =>
                                /\ now(i).pos_a = was(i).pos_a + t.qty_a
                                /\ now(i).pos_b = was(i).pos_b - t.qty_b
                        /\ t.kind = "SELL SPREAD" =>
                                /\ now(i).pos_a = was(i).pos_a - t.qty_a
                                /\ now(i).pos_b = was(i).pos_b + t.qty_b
                        /\ t.kind = "CLOSE" =>
                                /\ now(i).pos_a = 0 /\ now(i).pos_b = 0
                                /\ t.qty_a = was(i).pos_a /\ t.qty_b = was(i).pos_b
            /\ bt_cash' = bt_cash + flow[NPairs]
            /\ EveryPairPriced' => Last(bt_pnl_history')[2] = start[NPairs]]_vars

\* a fully priced step has opened one pair long and the other short, and the
\* equity it recorded is the equity of the step before
C23_Witness ==
    /\ session.pc = "rows" /\ EveryPairPriced
    /\ \E t \in TradeOf(1) \cup TradeOf(2) : t.kind = "BUY SPREAD"
    /\ \E t \in TradeOf(1) \cup TradeOf(2) : t.kind = "SELL SPREAD"
    /\ Len(bt_pnl_history) >= 2
    /\ Last(bt_pnl_history)[2] = bt_pnl_history[Len(bt_pnl_history) - 1][2]

\* a fully priced step has closed a pair after a profit or a loss: the equity
\* recorded is not the initial cash, and the cash is not the equity of the
\* step before, the prices having moved
C23_WitnessClose ==
    /\ session.pc = "rows" /\ EveryPairPriced
    /\ \E i \in PairIds : \E t \in TradeOf(i) : t.kind = "CLOSE"
    /\ Last(bt_pnl_history)[2] # InitialCash
    /\ bt_cash # bt_pnl_history[Len(bt_pnl_history) - 1][2]

----------------------------------------------------------------------------
\* which way a pair's record is open: 1 long the spread, -1 short, 0 flat
Direction(state) ==
    IF ~state.in_position THEN 0 ELSE IF state.pos_a > 0 THEN 1 ELSE -1

(* C24.  Pair independence.  Of two backtests that have been given, step by *)
(* step, the same quotes for a pair's own two symbols, whatever they were   *)
(* given for the other pairs' symbols (other prices, or none), the pair has *)
(* at every step the same spreads window, the same in_position and the same *)
(* direction in both, though the runs' equities differ.                     *)
C24_PairIndependence ==
    \A i \in twin.same :
        /\ twin.pairs_state[i].spreads = bt_pairs_state[i].spreads
        /\ twin.pairs_state[i].in_position = bt_pairs_state[i].in_position
        /\ Direction(twin.pairs_state[i]) = Direction(bt_pairs_state[i])

\* a pair with the same quotes in both runs is open the same way in both
\* with different quantities, having entered on equities that the other
\* pair had made different; the other pair is open in one run only
C24_Witness ==
    /\ mode = "tworuns"
    /\ \E i \in twin.same : \E j \in PairIds \ twin.same :
            /\ bt_pairs_state[i].in_position
            /\ twin.pairs_state[i].pos_a # bt_pairs_state[i].pos_a
            /\ Last(twin.bt_pnl_history)[2] # Last(bt_pnl_history)[2]
            /\ twin.pairs_state[j].in_position # bt_pairs_state[j].in_position

----------------------------------------------------------------------------
(* C25.  Backtest: in every state the campaign reaches, a pair that is      *)
(* in_position holds both legs, on opposite sides: pos_a >= 1 and           *)
(* pos_b <= -1 (long the spread) or pos_a <= -1 and pos_b >= 1 (short).     *)
C25_OpenHoldsBothLegs ==
    \A i \in PairIds :
        bt_pairs_state[i].in_position =>
            \/ bt_pairs_state[i].pos_a >= 1 /\ bt_pairs_state[i].pos_b <= -1
            \/ bt_pairs_state[i].pos_a <= -1 /\ bt_pairs_state[i].pos_b >= 1

\* one pair is open long the spread and the other short, a step after they
\* entered
C25_Witness ==
    /\ session.pc = "rows"
    /\ out = <<>>
    /\ \E i, j \in PairIds :
            /\ bt_pairs_state[i].in_position /\ bt_pairs_state[i].pos_a >= 1
            /\ bt_pairs_state[j].in_position /\ bt_pairs_state[j].pos_a <= -1

----------------------------------------------------------------------------
\* W * z^2 <= (W - 1)^2, for a z-score <<sign, a, b>> with z^2 = a / b
WithinWindowBound(z) ==
    lookback_window * z[2] <= (lookback_window - 1) * (lookback_window - 1) * z[3]

\* z_entry >= (W - 1) / sqrt(W)
EntryBeyondBound ==
    /\ z_entry[1] >= 0
    /\ lookback_window * z_entry[1] * z_entry[1]
            >= (lookback_window - 1) * (lookback_window - 1) * z_entry[2] * z_entry[2]

SpreadAt(i) == SpreadOf(PriceOf(PairOf(i).symbol_a), PriceOf(PairOf(i).symbol_b))

C26_WitnessFloat ==
    /\ arith = "float"
    /\ \E i \in PairIds :
            /\ ValidZ(i) /\ ~WithinWindowBound(ZOf(i))
            /\ Last(PairOf(i).spreads) = SpreadAt(i)

----------------------------------------------------------------------------
\* the last step scored pair i inside the exit band, beyond the entry band
ExitSignal(i) == ValidZ(i) /\ ZAbsLt(ZOf(i), z_exit)

EntrySignal(i) == ValidZ(i) /\ (ZGt(ZOf(i), z_entry) \/ ZLt(ZOf(i), Neg(z_entry)))

\* the symbols the last live step asked the venue to close, in order
ClosedSymbols == SelectSeq(out, LAMBDA c : c.call = "close_position")

\* the close_position calls of the pairs from i on that the step closes
CloseOrder[i \in 1..NPairs + 1] ==
    IF i > NPairs THEN <<>>
    ELSE (IF pairs_state[i].in_position /\ ~pairs_state'[i].in_position
          THEN <<pairs_state[i].symbol_a, pairs_state[i].symbol_b>> ELSE <<>>)
         \o CloseOrder[i + 1]

C27_WitnessBacktest ==
    /\ mode = "backtest"
    /\ \E i, j \in PairIds :
            /\ i # j
            /\ bt_pairs_state[i].symbol_a = bt_pairs_state[j].symbol_a
            /\ ClosedLast(i) /\ TradeOf(j) = {}
            /\ bt_pairs_state[j].in_position /\ bt_pairs_state[j].pos_a # 0

====
